---- MODULE Spec2Model ----
(***************************************************************************)
(* SimpleReader: the per-feed item store (utils/storage.js) and the        *)
(* background refresh orchestrator (background/index.js) as a state        *)
(* machine.  Every `await` of the source is a step boundary: a storage     *)
(* read, a storage write and a network fetch are separate actions, and     *)
(* other handlers may run between them.                                    *)
(*                                                                         *)
(* Item ids, feed ids and urls are strings in the source; here they are    *)
(* small naturals standing for distinct, non-numeric strings (so that a    *)
(* partition object keeps its keys in insertion order).  A partition       *)
(* (the object stored under "items_<feedId>") is the sequence of its       *)
(* values in key insertion order, which is what Object.values returns.     *)
(* Instants (Date.now(), a parsed pubDate) are integers.                   *)
(***************************************************************************)
EXTENDS Integers, Sequences, FiniteSets, TLC

VARIABLES
    items,      \* chrome.storage.local "items_<feedId>": feedId -> partition
    clock,      \* Date.now()
    subs,       \* chrome.storage.sync "subscriptions": the registry, in order
    feedMeta,   \* chrome.storage.local "feedMeta": feedId -> validator entry
    lastRefreshedAt,  \* chrome.storage.local "lastRefreshedAt"
    badge,      \* the text chrome.action.setBadgeText was last given
    cycles,     \* the refreshAllFeeds calls: locals, position, history
    ops,        \* SpecOps: addNewFeed / deleteFeed / toggleStar calls in flight
    nextId,     \* SpecOps: the next id crypto.randomUUID() hands out
    uiSubs,     \* the Dashboard's `subscriptions` state
    article,    \* SpecParse: the article the fetched documents encode
    opml,       \* SpecOpml: one generateOPML / parseOPML run
    importing,  \* SpecImport: the Dashboard's handleImportOPML run
    alarm,      \* SpecAlarm: chrome.alarms, the settings and the setupAlarm calls
    fetches,    \* SpecParse: per fetch, parser.parse's result and fetchFeed's
    calls,      \* SpecStore: direct saveItems / markItemRead calls in flight
    opsLeft,    \* SpecStore: calls the callers may still start
    evicted,    \* history: feedId -> the item versions that saveItems trimmed away
    raced,      \* history: some write landed between a call's read and its write
    lastWrite   \* history: what the last write to an item partition was

storeVars == <<calls, opsLeft, evicted, raced, lastWrite>>
orchVars == <<subs, feedMeta, lastRefreshedAt, badge, cycles>>
regVars == <<ops, nextId, uiSubs>>
parseVars == <<article, fetches, opml, importing, alarm>>
vars == <<items, clock, subs, feedMeta, lastRefreshedAt, badge, cycles,
          ops, nextId, uiSubs, article, fetches, opml, importing, alarm,
          calls, opsLeft, evicted, raced, lastWrite>>

(***************************************************************************)
(* Bounds of the model.                                                    *)
(***************************************************************************)
MaxFeeds == 3       \* feed ids 1..MaxFeeds
MaxCalls == 2       \* SpecStore: concurrent direct store calls
MaxOps == 3         \* SpecStore: store calls started in one behaviour
MaxCycles == 1      \* Spec: refreshAllFeeds calls in one behaviour

Feeds == 1..MaxFeeds
Slots == 1..MaxCalls
Cycles == 1..MaxCycles

(***************************************************************************)
(* Program constants and special values.                                   *)
(***************************************************************************)
MAX_ITEMS_PER_FEED == 200
NoDate == 0         \* item.pubDate undefined or '' (falsy)
BadDate == -1       \* item.pubDate a string that Date cannot parse
NaN == -2           \* new Date(<unparseable>) - ... : the comparator's NaN
Now0 == 1500        \* the clock when the model starts

(***************************************************************************)
(* Items.                                                                  *)
(***************************************************************************)
\* An item as the fetcher normalizes it (title stands for every content field).
ParsedItem(id, title, pubDate) ==
    [id |-> id, title |-> title, pubDate |-> pubDate, read |-> FALSE]

\* { ...item, feedId, fetchedAt: Date.now() }
TagItem(item, feedId, now) ==
    [id |-> item.id, title |-> item.title, pubDate |-> item.pubDate,
     read |-> item.read, feedId |-> feedId, fetchedAt |-> now]

TagItems(batch, feedId, now) ==
    [i \in 1..Len(batch) |-> TagItem(batch[i], feedId, now)] \o <<>>

IdsOf(part) == {part[i].id : i \in 1..Len(part)}

\* currentItems[id] (the id is known to be a key)
Lookup(part, id) == part[CHOOSE i \in 1..Len(part) : part[i].id = id]

\* A faulty merge: an incoming item replaces the stored item of its id.
MergeNew_Overwrite(currentItems, newItems) ==
    LET n == Len(newItems)
        Latest(id) ==
            newItems[CHOOSE i \in 1..n :
                        /\ newItems[i].id = id
                        /\ \A j \in (i + 1)..n : newItems[j].id # id]
        have == IdsOf(currentItems)
        incoming == IdsOf(newItems)
        IsFirstNew(i) ==
            /\ newItems[i].id \notin have
            /\ \A j \in 1..(i - 1) : newItems[j].id # newItems[i].id
        firsts == SelectSeq([i \in 1..n |-> i], IsFirstNew)
    IN  [i \in 1..Len(currentItems) |->
            IF currentItems[i].id \in incoming
            THEN Latest(currentItems[i].id) ELSE currentItems[i]]
        \o [k \in 1..Len(firsts) |-> Latest(newItems[firsts[k]].id)]

\* A faulty merge: no check for a stored id.
MergeNew_NoDedup(currentItems, newItems) == currentItems \o newItems

(***************************************************************************)
(* saveItems, lines 85-89: newItems.forEach(item => { if                   *)
(* (!currentItems[item.id]) currentItems[item.id] = item }).  An id that   *)
(* is already a key keeps its stored value and its place; a new id is      *)
(* appended; of two items of the batch with one id the first is kept.      *)
(***************************************************************************)
MergeNew(currentItems, newItems) ==
    LET have == IdsOf(currentItems)
        n == Len(newItems)
        ids == [i \in 1..n |-> newItems[i].id] \o <<>>
        IsNew(item) == item.id \notin have
        \* an item of the batch that no earlier item of the batch shares its id with
        first == [i \in 1..n |-> \A j \in 1..(i - 1) : ids[j] # ids[i]] \o <<>>
        F == {i \in 1..n : ids[i] \notin have /\ first[i]}
        pos == [i \in 1..n |-> Cardinality({j \in F : j <= i})] \o <<>>
        nth == [k \in 1..Cardinality(F) |-> CHOOSE i \in F : pos[i] = k] \o <<>>
    IN  IF Cardinality(IdsOf(newItems)) = n
        THEN currentItems \o SelectSeq(newItems, IsNew)
        ELSE currentItems \o [k \in 1..Cardinality(F) |-> newItems[nth[k]]]

\* new Date(x.pubDate || x.fetchedAt) as a number: NaN for an unparseable pubDate
SortKey(item) ==
    IF item.pubDate = NoDate THEN item.fetchedAt
    ELSE IF item.pubDate = BadDate THEN NaN
    ELSE item.pubDate

\* The comparator's "equal" is transitive (a consistent comparator) unless a
\* NaN key meets two different valid keys.
ConsistentKeys(all) ==
    \/ \A i \in 1..Len(all) : SortKey(all[i]) # NaN
    \/ \A i, j \in 1..Len(all) :
          (SortKey(all[i]) # NaN /\ SortKey(all[j]) # NaN)
              => SortKey(all[i]) = SortKey(all[j])

NaNIds(all) == {all[i].id : i \in {j \in 1..Len(all) : SortKey(all[j]) = NaN}}

\* Every item is in order after its predecessor: the comparator answers
\* "not before" (a value >= 0, or NaN, which sort reads as 0) for each adjacent
\* pair, so the sort finds one run and moves nothing.
AdjacentOrdered(all) ==
    \A i \in 2..Len(all) :
        \/ SortKey(all[i - 1]) = NaN
        \/ SortKey(all[i]) = NaN
        \/ SortKey(all[i - 1]) >= SortKey(all[i])

\* The ways Array.prototype.sort may treat the NaN-keyed items.  With a
\* consistent comparator there is one (a stable sort), and an array whose
\* adjacent items are all in order is left as it is.  Otherwise the order is
\* implementation-defined, and the model admits every outcome in which the
\* valid items keep their stable descending order and each NaN-keyed item lands
\* either before all of them (hi) or after all of them.
SortChoices(all) ==
    IF ConsistentKeys(all) \/ AdjacentOrdered(all)
    THEN {{}} ELSE SUBSET NaNIds(all)

\* A faulty sort: ascending, so that the oldest items are the ones kept.
SortedPrefix_OldestFirst(all, hi, keep) ==
    LET m == Len(all)
        before(j, i) == SortKey(all[j]) < SortKey(all[i]) \/ (SortKey(all[j]) = SortKey(all[i]) /\ j < i)
        order == SortSeq([i \in 1..m |-> i], before)
    IN  [r \in 1..keep |-> all[order[r]]] \o <<>>

\* allValues.sort((a, b) => new Date(b...) - new Date(a...)).slice(0, MAX):
\* the first MAX_ITEMS_PER_FEED items of the stable descending order.
SortedPrefix(all, hi, keep) ==
    LET m == Len(all)
        raw == [i \in 1..m |-> SortKey(all[i])] \o <<>>
        \* 0: a NaN item sorted first, 1: the comparable items, 2: a NaN item last
        cls == [i \in 1..m |->
                  IF raw[i] # NaN THEN 1
                  ELSE IF all[i].id \in hi THEN 0 ELSE 2] \o <<>>
        before(j, i) ==
            \/ cls[j] < cls[i]
            \/ /\ cls[j] = cls[i]
               /\ (raw[j] > raw[i] \/ (raw[j] = raw[i] /\ j < i))
        order == IF AdjacentOrdered(all)
                 THEN [i \in 1..m |-> i]
                 ELSE SortSeq([i \in 1..m |-> i], before)
    IN  [r \in 1..keep |-> all[order[r]]] \o <<>>

\* A faulty trim: keeps one item too many.
TrimToCap_OneTooMany(all, hi) ==
    IF Len(all) > MAX_ITEMS_PER_FEED + 1
    THEN SortedPrefix(all, hi, MAX_ITEMS_PER_FEED + 1)
    ELSE all

\* saveItems, lines 91-101: the object written back.
TrimToCap(all, hi) ==
    IF Len(all) > MAX_ITEMS_PER_FEED
    THEN SortedPrefix(all, hi, MAX_ITEMS_PER_FEED)
    ELSE all

\* markItemRead, line 113: currentItems[itemId].read = isRead
SetReadFlag(currentItems, itemId, isRead) ==
    [i \in 1..Len(currentItems) |->
        IF currentItems[i].id = itemId
        THEN [currentItems[i] EXCEPT !.read = isRead]
        ELSE currentItems[i]] \o <<>>

(***************************************************************************)
(* The validator map, the network and fetchFeed (utils/fetcher.js).        *)
(***************************************************************************)
Undefined == "undefined"

\* feedMeta[feedId] where the map has no such key; `allValidators[id] || {}`
\* reads the same undefined fields from it.
NoEntry ==
    [present |-> FALSE, etag |-> Undefined, lastModified |-> Undefined,
     siteLink |-> Undefined]

\* { etag, lastModified, siteLink } stored under a feedId
Entry(etag, lastModified, siteLink) ==
    [present |-> TRUE, etag |-> etag, lastModified |-> lastModified,
     siteLink |-> siteLink]

\* getLastRefreshed: data.lastRefreshedAt || null
NeverRefreshed == 0

\* if (x): neither undefined nor the empty string
Truthy(x) == x # Undefined /\ x # ""

\* The request fetchFeed issues: fetch(url), whatever else the caller passed.
FetchRequest(url, validator) ==
    [url |-> url, ifNoneMatch |-> Undefined, ifModifiedSince |-> Undefined]

NoRequest == [url |-> 0, ifNoneMatch |-> Undefined, ifModifiedSince |-> Undefined]

\* What the remote answers: fetch rejects (networkError), or a response with
\* a status, an ETag header and a body whose parsed root container is `root`
\* and whose entries are `entries`.
Response(networkError, status, root, entries, etag) ==
    [networkError |-> networkError, status |-> status, root |-> root,
     entries |-> entries, etag |-> etag]

DocEntry(id, title, pubDate) == [id |-> id, title |-> title, pubDate |-> pubDate]

\* one new entry
DocA == <<DocEntry(2, 1, 1100)>>
\* the entry the feed had when it was added, retitled, and an undated new one
DocB == <<DocEntry(1, 2, 1000), DocEntry(3, 1, NoDate)>>

Responses ==
    { Response(TRUE, 0, "none", <<>>, Undefined),
      Response(FALSE, 304, "none", <<>>, "v1"),
      Response(FALSE, 200, "html", <<>>, Undefined),
      Response(FALSE, 200, "rss", <<>>, Undefined),
      Response(FALSE, 200, "rss", DocA, Undefined),
      Response(FALSE, 200, "feed", DocB, "v1") }

\* response.ok
ResponseOk(response) == response.status \in 200..299

\* parseRSS2 / parseAtom / parseRSS1: items.map(entry => ({ id, title, ...,
\* pubDate, read: false }))
NormalizeEntries(entries) ==
    [i \in 1..Len(entries) |->
        ParsedItem(entries[i].id, entries[i].title, entries[i].pubDate)] \o <<>>

\* fetchFeed rejects
Thrown ==
    [kind |-> "error", items |-> <<>>, etag |-> Undefined,
     lastModified |-> Undefined, siteLink |-> Undefined]

\* fetchFeed(url): rejects on a network error, on a status outside 200..299, on
\* an unknown root container and on a feed without entries ([undefined].map
\* reads a property of undefined); otherwise resolves to { title, items }.
FetchFeed(url, validator, response) ==
    IF response.networkError THEN Thrown
    ELSE IF ~ResponseOk(response) THEN Thrown
    ELSE IF response.root \notin {"rss", "feed", "rdf:RDF"} THEN Thrown
    ELSE IF Len(response.entries) = 0 THEN Thrown
    ELSE [kind |-> "feed", items |-> NormalizeEntries(response.entries),
          etag |-> Undefined, lastModified |-> Undefined, siteLink |-> Undefined]

\* const { etag, lastModified, siteLink, ...feedRest } = feedData
FeedValidators(feedData) ==
    [etag |-> feedData.etag, lastModified |-> feedData.lastModified,
     siteLink |-> feedData.siteLink]

(***************************************************************************)
(* The normalizer in detail (utils/fetcher.js, lines 8-14 and 31-102).     *)
(* A value of the object parser.parse returns is absent (undefined), a     *)
(* string (an element with text only), or an object with a '#text' (an     *)
(* element with attributes).  An element that may repeat (item, entry,     *)
(* link) is absent, one value, or an array.                                *)
(***************************************************************************)
Absent == [t |-> "absent", v |-> ""]
Str(s) == [t |-> "str", v |-> s]
Obj(s) == [t |-> "obj", v |-> s]

\* if (value): undefined and the empty string are falsy, an object is truthy
TruthyNode(value) == value.t = "obj" \/ (value.t = "str" /\ value.v # "")

\* a || b
OrNode(a, b) == IF TruthyNode(a) THEN a ELSE b

\* getText, lines 10-14
GetText(value) ==
    IF ~TruthyNode(value) THEN ""
    ELSE value.v

None == [arr |-> FALSE, elems |-> <<>>]
One(e) == [arr |-> FALSE, elems |-> <<e>>]
Many(es) == [arr |-> TRUE, elems |-> es]

\* Array.isArray(x) ? x : [x], for an x that is not absent
AsArray(x) == x.elems

\* An absent x gives [undefined], and items.map(f) throws a TypeError when f
\* reads a property of the undefined element.
MapThrows(x) == ~x.arr /\ Len(x.elems) = 0

\* new Date(string) as an instant: RFC 822 and ISO 8601 strings with a zone
\* parse to the instant they name, anything else to NaN.
DateInstant(s) ==
    CASE s = "Mon, 01 Jan 2024 00:00:00 GMT" -> 1
      [] s = "2024-01-01T00:00:00Z" -> 1
      [] s = "Tue, 02 Jan 2024 00:00:00 GMT" -> 2
      [] s = "2024-01-02T00:00:00Z" -> 2
      [] OTHER -> NaN

NormalizedItem(id, title, link, content, pubDate) ==
    [id |-> id, title |-> title, link |-> link, content |-> content,
     pubDate |-> pubDate, read |-> FALSE]

\* parser.parse's result has no such root / fetchFeed has not returned
NoRss == [present |-> FALSE, title |-> Absent, item |-> None]
NoAtom == [present |-> FALSE, title |-> Absent, entry |-> None]
NoRdf == [present |-> FALSE, title |-> Absent, item |-> None]

ParseThrown(error) == [kind |-> "error", error |-> error, title |-> "", items |-> <<>>]
Normalized(title, list) == [kind |-> "feed", error |-> "none", title |-> title, items |-> list]

\* parseRSS2, lines 46-62
ParseRSS2(rss) ==
    LET elems == AsArray(rss.item)
    IN  IF MapThrows(rss.item) THEN ParseThrown("TypeError")
        ELSE Normalized(GetText(rss.title),
                [k \in 1..Len(elems) |->
                    LET item == elems[k]
                    IN  NormalizedItem(
                            IF item.guid.t = "obj" /\ item.guid.v # ""
                            THEN Str(item.guid.v)
                            ELSE IF TruthyNode(item.link) THEN item.link
                            ELSE Str(GetText(item.title)),
                            GetText(item.title),
                            item.link,
                            GetText(OrNode(item.contentEncoded, item.description)),
                            item.pubDate)])

\* A faulty link choice: the first link of the list, whatever its relation.
AtomLink_FirstLink(link) ==
    IF Len(link.elems) = 0 THEN Absent ELSE link.elems[1].href

\* parseAtom, lines 67-70: the href of the link that is taken
AtomLink(link) ==
    IF link.arr
    THEN LET hits == {k \in 1..Len(link.elems) :
                         link.elems[k].rel = "alternate" \/ link.elems[k].rel = ""}
         IN  IF hits = {} THEN Absent
             ELSE link.elems[CHOOSE k \in hits : \A j \in hits : k <= j].href
    ELSE IF Len(link.elems) = 1 THEN link.elems[1].href
    ELSE Absent

\* parseAtom, lines 64-85
ParseAtom(feed) ==
    LET elems == AsArray(feed.entry)
    IN  IF MapThrows(feed.entry) THEN ParseThrown("TypeError")
        ELSE Normalized(GetText(feed.title),
                [k \in 1..Len(elems) |->
                    LET entry == elems[k]
                    IN  NormalizedItem(
                            Str(GetText(entry.id)),
                            GetText(entry.title),
                            AtomLink(entry.link),
                            GetText(OrNode(entry.content, entry.summary)),
                            OrNode(entry.updated, entry.published))])

\* parseRSS1, lines 87-102
ParseRSS1(rdf) ==
    LET elems == AsArray(rdf.item)
    IN  IF MapThrows(rdf.item) THEN ParseThrown("TypeError")
        ELSE Normalized(GetText(rdf.title),
                [k \in 1..Len(elems) |->
                    LET item == elems[k]
                    IN  NormalizedItem(
                            IF TruthyNode(item.link) THEN item.link
                            ELSE Str(GetText(item.title)),
                            GetText(item.title),
                            item.link,
                            GetText(item.description),
                            item.dcDate)])

\* A faulty dispatch: the Atom container is looked for first.
ParseFeed_AtomFirst(result) ==
    IF result.feed.present THEN ParseAtom(result.feed)
    ELSE IF result.rss.present THEN ParseRSS2(result.rss)
    ELSE IF result.rdf.present THEN ParseRSS1(result.rdf)
    ELSE ParseThrown("Unknown feed format")

\* fetchFeed, lines 30-39: the dispatch on the parsed document's root
ParseFeed(result) ==
    IF result.rss.present THEN ParseRSS2(result.rss)
    ELSE IF result.feed.present THEN ParseAtom(result.feed)
    ELSE IF result.rdf.present THEN ParseRSS1(result.rdf)
    ELSE ParseThrown("Unknown feed format")

\* No article: the documents fetched are unrelated.
NoArticle ==
    [title |-> "", link |-> "", content |-> "", summary |-> "", date |-> 0]

\* No OPML export or import has been started.
NoOpml ==
    [pc |-> "idle", exported |-> FALSE, list |-> <<>>, doc |-> <<>>,
     result |-> [kind |-> "none", feeds |-> <<>>]]

\* handleImportOPML has not been called.
NoImport ==
    [pc |-> "idle", doc |-> <<>>, feeds |-> <<>>, count |-> 0,
     sent |-> <<>>, answers |-> <<>>, status |-> "none"]

\* No alarm exists, no settings are stored, setupAlarm is not running.
NoAlarm ==
    [alarms |-> {}, settings |-> 0, pc |-> <<"idle", "idle">>,
     started |-> 0, changes |-> 0, lost |-> 0, sinceChange |-> 0]

(***************************************************************************)
(* The badge (updateBadge).                                                *)
(***************************************************************************)
UnreadIn(part) == Cardinality({k \in 1..Len(part) : ~part[k].read})

\* getItems(): keys.flatMap(...) over the subscriptions read, then
\* items.filter(i => !i.read).length
RECURSIVE UnreadCount(_, _)
UnreadCount(keys, parts) ==
    IF Len(keys) = 0 THEN 0
    ELSE UnreadIn(parts[Head(keys).id]) + UnreadCount(Tail(keys), parts)

BadgeText(unreadCount) ==
    IF unreadCount > 0
    THEN IF unreadCount > 999 THEN "999+" ELSE ToString(unreadCount)
    ELSE ""

(***************************************************************************)
(* refreshAllFeeds: the locals of one call and its per-subscription tasks. *)
(***************************************************************************)
\* A registry record; `starred` is absent (falsy) until toggleStar sets it.
Subscription(id, url) == [id |-> id, url |-> url, starred |-> FALSE]

SubIds(subscriptions) == {subscriptions[k].id : k \in DOMAIN subscriptions}

\* One addNewFeed / deleteFeed / toggleStar call: its arguments, locals and
\* position.  response and error are the message handler's reply; writes,
\* quietAtCall, epoch, presentAtCall and stored are history.
IdleOp ==
    [kind |-> "none", pc |-> "idle", url |-> 0, feedId |-> 0,
     response |-> "none", error |-> "none",
     fetched |-> "none", fetchedItems |-> <<>>, respEtag |-> Undefined,
     returned |-> NoEntry,
     subscriptions |-> <<>>, toSave |-> <<>>, itemsToSave |-> <<>>,
     currentItems |-> <<>>, validatorsToSave |-> [f \in Feeds |-> NoEntry],
     badgeSubs |-> <<>>,
     writes |-> <<>>, quietAtCall |-> FALSE, epoch |-> 0,
     presentAtCall |-> FALSE, stored |-> <<>>]

\* One callback of subscriptions.map(async (sub) => ...).  status, respEtag,
\* fetched, putRejected, delivered, idsAfterPut and wrote are history.
NoTask ==
    [pc |-> "none", outcome |-> "none", request |-> NoRequest,
     validator |-> NoEntry, status |-> 0, respEtag |-> Undefined,
     fetched |-> "none", returned |-> FeedValidators(Thrown),
     itemsToSave |-> <<>>, currentItems |-> <<>>,
     putRejected |-> FALSE, delivered |-> {}, idsAfterPut |-> {}, wrote |-> FALSE]

\* One refreshAllFeeds call.  validatorWrites, badgeWrites, tsWrites,
\* savedValidators, earlyWrite and ownFailure are history.
IdleCycle ==
    [pc |-> "idle", trigger |-> "none", result |-> "none", response |-> "none",
     gotSubs |-> FALSE, gotVals |-> FALSE,
     subscriptions |-> <<>>,
     allValidators |-> [f \in Feeds |-> NoEntry],
     updatedValidators |-> [f \in Feeds |-> NoEntry],
     task |-> [i \in Feeds |-> NoTask],
     badgeSubs |-> <<>>,
     validatorWrites |-> 0, badgeWrites |-> 0, tsWrites |-> 0,
     savedValidators |-> [f \in Feeds |-> NoEntry],
     earlyWrite |-> FALSE, ownFailure |-> FALSE]

(***************************************************************************)
(* SpecStore: the item store under direct calls.  Callers start saveItems  *)
(* and markItemRead calls on one partition, at most MaxCalls at a time;    *)
(* each call reads the partition (chrome.storage.local.get), and after     *)
(* the await writes it back (chrome.storage.local.set).                    *)
(***************************************************************************)
\* The batches callers pass: one large document, single items of every kind
\* of date, a re-delivery of a stored id with other content, a batch that
\* repeats an id, and the empty batch.
BigSize == 200
\* newest first, as feeds list their entries
BigBatch == [i \in 1..BigSize |-> ParsedItem(i, 1, 1000 + BigSize + 1 - i)] \o <<>>
NewId == BigSize + 1
\* all entries of the big feed but its oldest
Refresh199 == SubSeq(BigBatch, 1, MAX_ITEMS_PER_FEED - 1)
StoreBatches ==
    { BigBatch,
      Refresh199,
      <<>>,
      <<ParsedItem(NewId, 1, 5)>>,
      <<ParsedItem(NewId, 2, 3000)>>,
      <<ParsedItem(NewId, 1, NoDate)>>,
      <<ParsedItem(NewId, 1, BadDate)>>,
      <<ParsedItem(NewId, 1, 5), ParsedItem(NewId, 2, 3000)>> }
StoreFeed == 1
StoreItemIds == {BigSize, NewId}

IdleCall ==
    [op |-> "none", pc |-> "idle", feedId |-> StoreFeed, newItems |-> <<>>,
     itemId |-> 0, isRead |-> FALSE, currentItems |-> <<>>]

\* An item version: what identifies one insertion of an id.
Version(item) ==
    [id |-> item.id, pubDate |-> item.pubDate, fetchedAt |-> item.fetchedAt]

\* The versions among `merged` that are not kept in `written`.
Dropped(merged, written) ==
    LET kept == IdsOf(written)
    IN  {Version(merged[i]) : i \in {j \in 1..Len(merged) : merged[j].id \notin kept}}

\* A write lands: every other call that has read and not yet written now
\* holds a stale snapshot.
OthersStale(s, feedId) ==
    \E t \in Slots \ {s} : calls[t].pc = "set" /\ calls[t].feedId = feedId

\* The ids of a batch that the partition read already held with other content.
Clashes(currentItems, newItems) ==
    LET have == IdsOf(currentItems)
    IN  {newItems[i].id : i \in
            {j \in 1..Len(newItems) :
                /\ newItems[j].id \in have
                /\ LET old == Lookup(currentItems, newItems[j].id)
                   IN  old.title # newItems[j].title \/ old.pubDate # newItems[j].pubDate}}

NoWrite == [op |-> "none", n |-> 0, feedId |-> 0, ids |-> {}, clash |-> {}, repeat |-> FALSE]

\* The record of a saveItems write: repeat says that it is the second of two
\* calls in a row that pass one item of the same id (the call read the partition
\* as the first call's write left it, and no other write came between).
PutRecord(f, currentItems, newItems) ==
    [op |-> "saveItems", n |-> lastWrite.n + 1, feedId |-> f,
     ids |-> IdsOf(newItems),
     clash |-> Clashes(currentItems, newItems),
     repeat |-> /\ lastWrite.op = "saveItems"
                /\ lastWrite.feedId = f
                /\ Len(newItems) = 1
                /\ lastWrite.ids = IdsOf(newItems)
                /\ currentItems = items[f]]

\* Call frames are interchangeable: a call takes the first idle one.
FirstIdle(s) ==
    /\ calls[s].pc = "idle"
    /\ \A t \in Slots : t < s => calls[t].pc # "idle"

\* saveItems, lines 76-82: the call; an empty batch returns at once.
CallSaveItems(s, batch) ==
    /\ FirstIdle(s)
    /\ opsLeft > 0
    /\ opsLeft' = opsLeft - 1
    /\ clock' = clock + 1
    /\ calls' = [calls EXCEPT ![s] =
          IF Len(batch) = 0 THEN IdleCall
          ELSE [IdleCall EXCEPT !.op = "saveItems", !.pc = "get",
                                !.newItems = TagItems(batch, StoreFeed, clock)]]
    /\ UNCHANGED <<items, evicted, raced, lastWrite>>
    /\ UNCHANGED orchVars
    /\ UNCHANGED regVars
    /\ UNCHANGED parseVars

\* saveItems, lines 82-83: data = await chrome.storage.local.get([key])
SaveItemsGet(s) ==
    /\ calls[s].op = "saveItems"
    /\ calls[s].pc = "get"
    /\ calls' = [calls EXCEPT ![s].pc = "set",
                              ![s].currentItems = items[calls[s].feedId]]
    /\ UNCHANGED <<items, clock, opsLeft, evicted, raced, lastWrite>>
    /\ UNCHANGED orchVars
    /\ UNCHANGED regVars
    /\ UNCHANGED parseVars

\* saveItems, lines 85-101: merge, trim, await chrome.storage.local.set
SaveItemsSet(s) ==
    /\ calls[s].op = "saveItems"
    /\ calls[s].pc = "set"
    /\ LET f == calls[s].feedId
           merged == MergeNew(calls[s].currentItems, calls[s].newItems)
       IN  \E hi \in SortChoices(merged) :
              LET written == TrimToCap(merged, hi)
              IN  /\ items' = [items EXCEPT ![f] = written]
                  /\ evicted' = [evicted EXCEPT ![f] = @ \cup Dropped(merged, written)]
                  /\ raced' = (raced \/ OthersStale(s, f))
                  /\ lastWrite' = PutRecord(f, calls[s].currentItems, calls[s].newItems)
    /\ calls' = [calls EXCEPT ![s] = IdleCall]
    /\ UNCHANGED <<clock, opsLeft>>
    /\ UNCHANGED orchVars
    /\ UNCHANGED regVars
    /\ UNCHANGED parseVars

\* saveItems, line 98/100: the write is rejected (quota): the call throws.
SaveItemsSetFails(s) ==
    /\ calls[s].op = "saveItems"
    /\ calls[s].pc = "set"
    /\ calls' = [calls EXCEPT ![s] = IdleCall]
    /\ UNCHANGED <<items, clock, opsLeft, evicted, raced, lastWrite>>
    /\ UNCHANGED orchVars
    /\ UNCHANGED regVars
    /\ UNCHANGED parseVars

\* markItemRead, lines 107-109: the call
CallMarkItemRead(s, itemId, isRead) ==
    /\ FirstIdle(s)
    /\ opsLeft > 0
    /\ opsLeft' = opsLeft - 1
    /\ calls' = [calls EXCEPT ![s] =
          [IdleCall EXCEPT !.op = "markItemRead", !.pc = "get",
                           !.itemId = itemId, !.isRead = isRead]]
    /\ UNCHANGED <<items, clock, evicted, raced, lastWrite>>
    /\ UNCHANGED orchVars
    /\ UNCHANGED regVars
    /\ UNCHANGED parseVars

\* markItemRead, lines 109-113: the read; an unknown id ends the call.
MarkItemReadGet(s) ==
    /\ calls[s].op = "markItemRead"
    /\ calls[s].pc = "get"
    /\ LET cur == items[calls[s].feedId]
       IN  calls' = [calls EXCEPT ![s] =
              IF calls[s].itemId \in IdsOf(cur)
              THEN [@ EXCEPT !.pc = "set",
                             !.currentItems =
                                 SetReadFlag(cur, calls[s].itemId, calls[s].isRead)]
              ELSE IdleCall]
    /\ UNCHANGED <<items, clock, opsLeft, evicted, raced, lastWrite>>
    /\ UNCHANGED orchVars
    /\ UNCHANGED regVars
    /\ UNCHANGED parseVars

\* markItemRead, line 114: await chrome.storage.local.set
MarkItemReadSet(s) ==
    /\ calls[s].op = "markItemRead"
    /\ calls[s].pc = "set"
    /\ items' = [items EXCEPT ![calls[s].feedId] = calls[s].currentItems]
    /\ raced' = (raced \/ OthersStale(s, calls[s].feedId))
    /\ lastWrite' = [NoWrite EXCEPT !.op = "markItemRead", !.n = lastWrite.n + 1,
                                    !.feedId = calls[s].feedId,
                                    !.ids = {calls[s].itemId}]
    /\ calls' = [calls EXCEPT ![s] = IdleCall]
    /\ UNCHANGED <<clock, opsLeft, evicted>>
    /\ UNCHANGED orchVars
    /\ UNCHANGED regVars
    /\ UNCHANGED parseVars

StoreInit ==
    /\ items = [f \in Feeds |-> <<>>]
    /\ clock = Now0
    /\ subs = <<>>
    /\ feedMeta = [f \in Feeds |-> NoEntry]
    /\ lastRefreshedAt = NeverRefreshed
    /\ badge = ""
    /\ cycles = [c \in Cycles |-> IdleCycle]
    /\ ops = [o \in Slots |-> IdleOp]
    /\ article = NoArticle
    /\ fetches = <<>>
    /\ opml = NoOpml
    /\ importing = NoImport
    /\ alarm = NoAlarm
    /\ nextId = 1
    /\ uiSubs = <<>>
    /\ calls = [s \in Slots |-> IdleCall]
    /\ opsLeft = MaxOps
    /\ evicted = [f \in Feeds |-> {}]
    /\ raced = FALSE
    /\ lastWrite = NoWrite

StoreNext ==
    \/ \E s \in Slots, b \in StoreBatches : CallSaveItems(s, b)
    \/ \E s \in Slots : SaveItemsGet(s)
    \/ \E s \in Slots : SaveItemsSet(s)
    \/ \E s \in Slots : SaveItemsSetFails(s)
    \/ \E s \in Slots, id \in StoreItemIds, r \in BOOLEAN : CallMarkItemRead(s, id, r)
    \/ \E s \in Slots : MarkItemReadGet(s)
    \/ \E s \in Slots : MarkItemReadSet(s)

SpecStore == StoreInit /\ [][StoreNext]_vars

(***************************************************************************)
(* Claims about the item store (checked under SpecStore).                  *)
(***************************************************************************)
\* The effective timestamp of the specification: the pubDate, and the
\* fetchedAt when the pubDate is absent or cannot be parsed.
EffectiveTimestamp(v) ==
    IF v.pubDate = NoDate \/ v.pubDate = BadDate THEN v.fetchedAt ELSE v.pubDate

DistinctIdsPut(f) == IdsOf(items[f]) \cup {d.id : d \in evicted[f]}

\* C1: after every write of saveItems or markItemRead, under every
\* interleaving of their reads and writes, a persisted partition holds at most
\* MAX_ITEMS_PER_FEED (200) items.
C1_PartitionWithinCap ==
    \A f \in Feeds : Len(items[f]) <= MAX_ITEMS_PER_FEED

\* C1 witness: a partition is full after interleaved calls trimmed it.
C1_Witness ==
    \E f \in Feeds :
        /\ raced
        /\ evicted[f] # {}
        /\ Len(items[f]) = MAX_ITEMS_PER_FEED

\* C2 (as claimed): in a run of saveItems calls that never overlap another
\* write, once more than 200 distinct ids have been put into a partition it
\* holds exactly 200 items, and each of them has an effective timestamp at
\* least that of every item version that was put and is no longer held.
C2_RetainsMostRecent ==
    \A f \in Feeds :
        (~raced /\ Cardinality(DistinctIdsPut(f)) > MAX_ITEMS_PER_FEED)
            => /\ Len(items[f]) = MAX_ITEMS_PER_FEED
               /\ \A i \in 1..Len(items[f]) : \A d \in evicted[f] :
                     EffectiveTimestamp(items[f][i]) >= EffectiveTimestamp(d)

\* C3: a saveItems write leaves every item that the call read from the
\* partition exactly as it was read (read flag, title, dates), whatever the
\* batch delivers under that id, unless the trim removes the item.
C3_FirstWriteWins ==
    [][\A s \in Slots :
          SaveItemsSet(s) =>
              LET f == calls[s].feedId
                  before == calls[s].currentItems
                  kept == IdsOf(items'[f])
              IN  \A i \in 1..Len(before) :
                      before[i].id \in kept
                          => Lookup(items'[f], before[i].id) = before[i]]_vars

\* C3 witness: the last write was a saveItems whose batch delivered other
\* content for an id that was stored, and that id is still stored.
C3_Witness ==
    /\ lastWrite.op = "saveItems"
    /\ lastWrite.clash \cap IdsOf(items[lastWrite.feedId]) # {}

\* C4 (as claimed): the second of two saveItems calls in a row that pass one
\* item of the same id leaves the partition as the first call left it (stated
\* for partitions in which every pubDate can be parsed).
C4_SecondPutChangesNothing ==
    [][LET f == lastWrite'.feedId
       IN  (/\ lastWrite'.n # lastWrite.n
            /\ lastWrite'.repeat
            /\ \A i \in 1..Len(items'[f]) : items'[f][i].pubDate # BadDate
            /\ \A d \in evicted'[f] : d.pubDate # BadDate)
              => items'[f] = items[f]]_vars

\* C4 (amended): ... provided the first call left the item in the partition
\* (its trim did not remove it).
C4_SecondPutOfKeptItemChangesNothing ==
    [][(lastWrite'.n # lastWrite.n /\ lastWrite'.repeat
            /\ lastWrite'.ids \subseteq IdsOf(items[lastWrite'.feedId]))
          => items'[lastWrite'.feedId] = items[lastWrite'.feedId]]_vars

\* C4 witness: a second call in a row for an item the first call had kept, in
\* a full partition.
C4_Witness ==
    /\ lastWrite.repeat
    /\ lastWrite.ids \subseteq IdsOf(items[lastWrite.feedId])
    /\ Len(items[lastWrite.feedId]) = MAX_ITEMS_PER_FEED

\* The item is still in the partition, unchanged but for its read flag.
KeptButForRead(item, part) ==
    /\ item.id \in IdsOf(part)
    /\ [Lookup(part, item.id) EXCEPT !.read = item.read] = item

\* C19: a stored item leaves its partition only through cap eviction, and only
\* its read flag ever changes, whatever the interleaving of saveItems and
\* markItemRead: across the write of a markItemRead call (which evicts
\* nothing), each item of the partition is still there afterwards with every
\* field but read unchanged.
C19_ItemsLeaveOnlyByEviction ==
    [][(lastWrite'.op = "markItemRead" /\ lastWrite'.n # lastWrite.n)
          => \A i \in 1..Len(items[lastWrite'.feedId]) :
                KeptButForRead(items[lastWrite'.feedId][i], items'[lastWrite'.feedId])]_vars

\* C20: a saveItems write never reverts a read flag: an item that was read
\* before the write and is retained by it is read after it.
C20_PutKeepsReadFlag ==
    [][(lastWrite'.op = "saveItems" /\ lastWrite'.n # lastWrite.n)
          => \A i \in 1..Len(items[lastWrite'.feedId]) :
                LET item == items[lastWrite'.feedId][i]
                    after == items'[lastWrite'.feedId]
                IN  (item.read /\ item.id \in IdsOf(after))
                       => Lookup(after, item.id).read]_vars

\* The partition holds the single item i1 (id NewId, pubDate 5) and a
\* saveItems call that read it writes a batch of the given ids, every one of
\* them new and dated later than i1; no call overlapped another's write.
RefreshOntoSingleItem(ids) ==
    /\ Len(items[StoreFeed]) = 1
    /\ items[StoreFeed][1].id = NewId
    /\ items[StoreFeed][1].pubDate = 5
    /\ lastWrite'.op = "saveItems"
    /\ lastWrite'.n # lastWrite.n
    /\ lastWrite'.ids = ids
    /\ ~raced'

\* C21: from a partition holding the single item i1, a refresh delivering 199
\* distinct new items, each dated later than i1, leaves a partition of size
\* 200 from which i1 has been evicted.
C21_Refresh199EvictsFirstItem ==
    [][RefreshOntoSingleItem(IdsOf(Refresh199))
          => /\ Len(items'[StoreFeed]) = MAX_ITEMS_PER_FEED
             /\ NewId \notin IdsOf(items'[StoreFeed])]_vars

\* C21 (amended): from a partition holding the single item i1, a refresh
\* delivering 200 distinct new items, each dated later than i1, leaves a
\* partition of size 200 from which i1 has been evicted, every retained item
\* having a later effective timestamp than i1.
C21_Refresh200EvictsFirstItem ==
    [][RefreshOntoSingleItem(IdsOf(BigBatch))
          => /\ Len(items'[StoreFeed]) = MAX_ITEMS_PER_FEED
             /\ NewId \notin IdsOf(items'[StoreFeed])
             /\ Version(items[StoreFeed][1]) \in evicted'[StoreFeed]
             /\ \A i \in 1..Len(items'[StoreFeed]) :
                   EffectiveTimestamp(items'[StoreFeed][i])
                       > EffectiveTimestamp(items[StoreFeed][1])]_vars

\* i1 was stored alone, the 200 later items were put, and i1 was evicted.
C21_Witness ==
    /\ lastWrite.op = "saveItems"
    /\ lastWrite.n = 2
    /\ lastWrite.ids = IdsOf(BigBatch)
    /\ ~raced
    /\ Len(items[StoreFeed]) = MAX_ITEMS_PER_FEED
    /\ \E d \in evicted[StoreFeed] : d.id = NewId /\ d.pubDate = 5

(***************************************************************************)
(* Spec: the background worker's refresh cycles.  A cycle is one call of   *)
(* refreshAllFeeds, started by the alarm or by a REFRESH_FEEDS message;    *)
(* cycles may overlap.  The storage the worker starts from is what earlier *)
(* addNewFeed calls left: a registry of up to MaxFeeds subscriptions, each *)
(* with the item its feed had when it was added.                           *)
(***************************************************************************)
\* The indices of the per-subscription callbacks of a cycle.
TaskIds(cy) == 1..Len(cy.subscriptions)

\* The callbacks that have not returned yet.
Unsettled(cy) == {i \in TaskIds(cy) : cy.task[i].pc # "settled"}

\* A faulty join: continues as soon as one callback has returned.
TasksJoined_Any(cy) == \E i \in TaskIds(cy) : cy.task[i].pc = "settled"

\* await Promise.all(subscriptions.map(...)) has resolved
TasksJoined(cy) == \A i \in TaskIds(cy) : cy.task[i].pc = "settled"

\* A handler without .catch: a rejected refreshAllFeeds is never answered.
RefreshResponse_NoCatch(trigger, result) ==
    IF trigger = "message" /\ result = "success" THEN result ELSE "none"

\* sendResponse of the REFRESH_FEEDS handler; the alarm listener answers nobody
RefreshResponse(trigger, result) == IF trigger = "message" THEN result ELSE "none"

\* refreshAllFeeds resolves ("success") or rejects ("error")
Finish(cy, result) ==
    [cy EXCEPT !.pc = "done", !.result = result,
               !.response = RefreshResponse(cy.trigger, result)]

\* The callback has returned: its locals are gone.
Settled(task, outcome) ==
    [task EXCEPT !.pc = "settled", !.outcome = outcome,
                 !.itemsToSave = <<>>, !.currentItems = <<>>]

\* A missing catch: the error rejects Promise.all and with it refreshAllFeeds.
TaskFailed_Rethrows(cy, i) ==
    Finish([cy EXCEPT !.task[i] = Settled(@, "failed")], "error")

\* A failure that gives up the whole fan-out: the callbacks still running
\* are abandoned, and the cycle goes on to its final writes.
TaskFailed_AbandonsOthers(cy, i) ==
    [cy EXCEPT !.task = [j \in Feeds |->
        IF j \in Unsettled(cy) THEN Settled(cy.task[j], "failed") ELSE cy.task[j]]]

\* catch (err) { console.error(...) }: the callback returns normally
TaskFailed(cy, i) == [cy EXCEPT !.task[i] = Settled(@, "failed")]

\* if (etag || lastModified || siteLink) updatedValidators[sub.id] = {...}
StageValidators(updatedValidators, feedId, v) ==
    IF Truthy(v.etag) \/ Truthy(v.lastModified) \/ Truthy(v.siteLink)
    THEN [updatedValidators EXCEPT ![feedId] = Entry(v.etag, v.lastModified, v.siteLink)]
    ELSE updatedValidators

\* After `await saveItems(itemsToSave)`: log, stage the validators, return.
AfterPut(cy, i) ==
    [cy EXCEPT !.updatedValidators =
                   StageValidators(@, cy.subscriptions[i].id, cy.task[i].returned),
               !.task[i] = Settled(@, "stored")]

\* A faulty callback: the validators are staged as soon as the response is in,
\* before its items are stored.
AfterFetch_StagesEarly(cy, i, feedData, now) ==
    IF feedData.kind = "error" THEN TaskFailed(cy, i)
    ELSE IF feedData.kind = "null"
    THEN [cy EXCEPT !.task[i] = Settled(@, "unchanged")]
    ELSE LET itemsToSave == TagItems(feedData.items, cy.subscriptions[i].id, now)
             cy1 == [cy EXCEPT !.task[i].returned = FeedValidators(feedData),
                               !.task[i].itemsToSave = itemsToSave,
                               !.task[i].delivered = IdsOf(itemsToSave),
                               !.updatedValidators =
                                   StageValidators(@, cy.subscriptions[i].id,
                                                   FeedValidators(feedData))]
         IN  IF Len(itemsToSave) = 0
             THEN AfterPut(cy1, i)
             ELSE [cy1 EXCEPT !.task[i].pc = "get"]

\* After `await fetchFeed(...)`: a rejection goes to the catch, null returns,
\* a feed has its items tagged and saveItems called (which returns at once
\* for an empty list).
AfterFetch(cy, i, feedData, now) ==
    IF feedData.kind = "error" THEN TaskFailed(cy, i)
    ELSE IF feedData.kind = "null"
    THEN [cy EXCEPT !.task[i] = Settled(@, "unchanged")]
    ELSE LET itemsToSave == TagItems(feedData.items, cy.subscriptions[i].id, now)
             cy1 == [cy EXCEPT !.task[i].returned = FeedValidators(feedData),
                               !.task[i].itemsToSave = itemsToSave,
                               !.task[i].delivered = IdsOf(itemsToSave)]
         IN  IF Len(itemsToSave) = 0
             THEN AfterPut(cy1, i)
             ELSE [cy1 EXCEPT !.task[i].pc = "get"]

\* Both reads of the first Promise.all are in: an empty registry returns,
\* otherwise the working map is copied and every callback calls fetchFeed.
BeginTasks(cy) ==
    IF Len(cy.subscriptions) = 0 THEN Finish(cy, "success")
    ELSE [cy EXCEPT
            !.pc = "tasks",
            !.updatedValidators = cy.allValidators,
            !.task = [i \in Feeds |->
                IF i \in TaskIds(cy)
                THEN [NoTask EXCEPT
                        !.pc = "fetch",
                        !.validator = cy.allValidators[cy.subscriptions[i].id],
                        !.request = FetchRequest(cy.subscriptions[i].url,
                                        cy.allValidators[cy.subscriptions[i].id])]
                ELSE NoTask]]

\* A faulty tail: the timestamp is recorded only when something was stored.
AfterBadge_SkipsTimestamp(cy) ==
    IF \E i \in TaskIds(cy) : cy.task[i].outcome = "stored"
    THEN [cy EXCEPT !.pc = "saveLast"]
    ELSE Finish(cy, "success")

\* updateBadge has resolved: await saveLastRefreshed(...) is next
AfterBadge(cy) == [cy EXCEPT !.pc = "saveLast"]

\* The alarm fires or a REFRESH_FEEDS message arrives: refreshAllFeeds is called.
StartRefresh(c, trigger) ==
    /\ cycles[c].pc = "idle"
    /\ \A d \in Cycles : d < c => cycles[d].pc # "idle"
    /\ cycles' = [cycles EXCEPT ![c] = [IdleCycle EXCEPT !.pc = "read", !.trigger = trigger]]
    /\ clock' = clock + 1
    /\ UNCHANGED <<items, subs, feedMeta, lastRefreshedAt, badge>>
    /\ UNCHANGED storeVars
    /\ UNCHANGED regVars
    /\ UNCHANGED parseVars

\* getSubscriptions() of the first Promise.all resolves
CycleGetSubscriptions(c) ==
    /\ cycles[c].pc = "read"
    /\ ~cycles[c].gotSubs
    /\ LET cy == [cycles[c] EXCEPT !.gotSubs = TRUE, !.subscriptions = subs]
       IN  cycles' = [cycles EXCEPT ![c] = IF cy.gotVals THEN BeginTasks(cy) ELSE cy]
    /\ UNCHANGED <<items, clock, subs, feedMeta, lastRefreshedAt, badge>>
    /\ UNCHANGED storeVars
    /\ UNCHANGED regVars
    /\ UNCHANGED parseVars

\* getFeedValidators() of the first Promise.all resolves
CycleGetFeedValidators(c) ==
    /\ cycles[c].pc = "read"
    /\ ~cycles[c].gotVals
    /\ LET cy == [cycles[c] EXCEPT !.gotVals = TRUE, !.allValidators = feedMeta]
       IN  cycles' = [cycles EXCEPT ![c] = IF cy.gotSubs THEN BeginTasks(cy) ELSE cy]
    /\ UNCHANGED <<items, clock, subs, feedMeta, lastRefreshedAt, badge>>
    /\ UNCHANGED storeVars
    /\ UNCHANGED regVars
    /\ UNCHANGED parseVars

\* The remote answers callback i's request and fetchFeed settles.
FetchSettles(c, i, response) ==
    /\ cycles[c].pc = "tasks"
    /\ i \in TaskIds(cycles[c])
    /\ cycles[c].task[i].pc = "fetch"
    /\ LET sub == cycles[c].subscriptions[i]
           feedData == FetchFeed(sub.url, cycles[c].task[i].validator, response)
           cy == [cycles[c] EXCEPT !.task[i].status = response.status,
                                   !.task[i].respEtag = response.etag,
                                   !.task[i].fetched = feedData.kind]
       IN  cycles' = [cycles EXCEPT ![c] = AfterFetch(cy, i, feedData, clock)]
    /\ UNCHANGED <<items, clock, subs, feedMeta, lastRefreshedAt, badge>>
    /\ UNCHANGED storeVars
    /\ UNCHANGED regVars
    /\ UNCHANGED parseVars

\* saveItems of callback i reads the partition
TaskSaveItemsGet(c, i) ==
    /\ cycles[c].pc = "tasks"
    /\ i \in TaskIds(cycles[c])
    /\ cycles[c].task[i].pc = "get"
    /\ cycles' = [cycles EXCEPT ![c].task[i].pc = "set",
                                ![c].task[i].currentItems =
                                    items[cycles[c].subscriptions[i].id]]
    /\ UNCHANGED <<items, clock, subs, feedMeta, lastRefreshedAt, badge>>
    /\ UNCHANGED storeVars
    /\ UNCHANGED regVars
    /\ UNCHANGED parseVars

\* saveItems of callback i writes the partition, and the callback goes on
TaskSaveItemsSet(c, i) ==
    /\ cycles[c].pc = "tasks"
    /\ i \in TaskIds(cycles[c])
    /\ cycles[c].task[i].pc = "set"
    /\ LET f == cycles[c].subscriptions[i].id
           merged == MergeNew(cycles[c].task[i].currentItems,
                              cycles[c].task[i].itemsToSave)
       IN  \E hi \in SortChoices(merged) :
              LET written == TrimToCap(merged, hi)
                  cy == [cycles[c] EXCEPT !.task[i].idsAfterPut = IdsOf(written),
                                          !.task[i].wrote = TRUE]
              IN  /\ items' = [items EXCEPT ![f] = written]
                  /\ cycles' = [cycles EXCEPT ![c] = AfterPut(cy, i)]
    /\ UNCHANGED <<clock, subs, feedMeta, lastRefreshedAt, badge>>
    /\ UNCHANGED storeVars
    /\ UNCHANGED regVars
    /\ UNCHANGED parseVars

\* chrome.storage rejects the read or the write of callback i's saveItems
TaskStorageRejects(c, i) ==
    /\ cycles[c].pc = "tasks"
    /\ i \in TaskIds(cycles[c])
    /\ cycles[c].task[i].pc \in {"get", "set"}
    /\ cycles' = [cycles EXCEPT ![c] =
                    TaskFailed([cycles[c] EXCEPT !.task[i].putRejected = TRUE], i)]
    /\ UNCHANGED <<items, clock, subs, feedMeta, lastRefreshedAt, badge>>
    /\ UNCHANGED storeVars
    /\ UNCHANGED regVars
    /\ UNCHANGED parseVars

\* await saveFeedValidators(updatedValidators)
CycleSaveFeedValidators(c) ==
    /\ cycles[c].pc = "tasks"
    /\ TasksJoined(cycles[c])
    /\ feedMeta' = cycles[c].updatedValidators
    /\ cycles' = [cycles EXCEPT ![c] =
          [@ EXCEPT !.pc = "badgeSubs",
                    !.validatorWrites = @ + 1,
                    !.savedValidators = cycles[c].updatedValidators,
                    !.earlyWrite = @ \/ Unsettled(cycles[c]) # {}]]
    /\ UNCHANGED <<items, clock, subs, lastRefreshedAt, badge>>
    /\ UNCHANGED storeVars
    /\ UNCHANGED regVars
    /\ UNCHANGED parseVars

\* updateBadge -> getItems(): the subscriptions are read; with none there are
\* no items and the badge is cleared.
UpdateBadgeGetSubscriptions(c) ==
    /\ cycles[c].pc = "badgeSubs"
    /\ IF Len(subs) = 0
       THEN /\ badge' = BadgeText(0)
            /\ cycles' = [cycles EXCEPT ![c] =
                  AfterBadge([@ EXCEPT !.badgeWrites = @ + 1,
                                       !.earlyWrite = @ \/ Unsettled(cycles[c]) # {}])]
       ELSE /\ badge' = badge
            /\ cycles' = [cycles EXCEPT ![c].pc = "badgeItems", ![c].badgeSubs = subs]
    /\ UNCHANGED <<items, clock, subs, feedMeta, lastRefreshedAt>>
    /\ UNCHANGED storeVars
    /\ UNCHANGED regVars
    /\ UNCHANGED parseVars

\* updateBadge -> getItems(): the partitions are read, the unread items
\* counted and the badge text set.
UpdateBadgeGetItems(c) ==
    /\ cycles[c].pc = "badgeItems"
    /\ badge' = BadgeText(UnreadCount(cycles[c].badgeSubs, items))
    /\ cycles' = [cycles EXCEPT ![c] =
          AfterBadge([@ EXCEPT !.badgeSubs = <<>>,
                               !.badgeWrites = @ + 1,
                               !.earlyWrite = @ \/ Unsettled(cycles[c]) # {}])]
    /\ UNCHANGED <<items, clock, subs, feedMeta, lastRefreshedAt>>
    /\ UNCHANGED storeVars
    /\ UNCHANGED regVars
    /\ UNCHANGED parseVars

\* await saveLastRefreshed(new Date().toISOString()); refreshAllFeeds resolves
CycleSaveLastRefreshed(c) ==
    /\ cycles[c].pc = "saveLast"
    /\ lastRefreshedAt' = clock
    /\ cycles' = [cycles EXCEPT ![c] =
          Finish([@ EXCEPT !.tsWrites = @ + 1,
                           !.earlyWrite = @ \/ Unsettled(cycles[c]) # {}], "success")]
    /\ UNCHANGED <<items, clock, subs, feedMeta, badge>>
    /\ UNCHANGED storeVars
    /\ UNCHANGED regVars
    /\ UNCHANGED parseVars

\* chrome.storage rejects one of the cycle's own reads or writes:
\* refreshAllFeeds rejects.
CycleStorageRejects(c) ==
    /\ \/ cycles[c].pc \in {"read", "badgeSubs", "badgeItems", "saveLast"}
       \/ cycles[c].pc = "tasks" /\ TasksJoined(cycles[c])
    /\ cycles' = [cycles EXCEPT ![c] = Finish([@ EXCEPT !.ownFailure = TRUE], "error")]
    /\ UNCHANGED <<items, clock, subs, feedMeta, lastRefreshedAt, badge>>
    /\ UNCHANGED storeVars
    /\ UNCHANGED regVars
    /\ UNCHANGED parseVars

\* The registry of n subscriptions, feed k at url k.
Registry(n) == [k \in 1..n |-> Subscription(k, k)]

\* The item addNewFeed stored when the feed was added.
SeedItem(f) == TagItem(ParsedItem(1, 1, 1000), f, Now0 - 1)

Init ==
    /\ \E n \in 0..MaxFeeds :
          /\ subs = Registry(n)
          /\ items = [f \in Feeds |-> IF f <= n THEN <<SeedItem(f)>> ELSE <<>>]
          /\ badge = BadgeText(n)
          /\ nextId = n + 1
    /\ uiSubs = subs
    /\ ops = [o \in Slots |-> IdleOp]
    /\ article = NoArticle
    /\ fetches = <<>>
    /\ opml = NoOpml
    /\ importing = NoImport
    /\ alarm = NoAlarm
    /\ clock = Now0
    /\ feedMeta = [f \in Feeds |-> NoEntry]
    /\ lastRefreshedAt = NeverRefreshed
    /\ cycles = [c \in Cycles |-> IdleCycle]
    /\ calls = [s \in Slots |-> IdleCall]
    /\ opsLeft = 0
    /\ evicted = [f \in Feeds |-> {}]
    /\ raced = FALSE
    /\ lastWrite = NoWrite

Next ==
    \/ \E c \in Cycles, trigger \in {"alarm", "message"} : StartRefresh(c, trigger)
    \/ \E c \in Cycles : CycleGetSubscriptions(c)
    \/ \E c \in Cycles : CycleGetFeedValidators(c)
    \/ \E c \in Cycles, i \in Feeds, r \in Responses : FetchSettles(c, i, r)
    \/ \E c \in Cycles, i \in Feeds : TaskSaveItemsGet(c, i)
    \/ \E c \in Cycles, i \in Feeds : TaskSaveItemsSet(c, i)
    \/ \E c \in Cycles, i \in Feeds : TaskStorageRejects(c, i)
    \/ \E c \in Cycles : CycleSaveFeedValidators(c)
    \/ \E c \in Cycles : UpdateBadgeGetSubscriptions(c)
    \/ \E c \in Cycles : UpdateBadgeGetItems(c)
    \/ \E c \in Cycles : CycleSaveLastRefreshed(c)
    \/ \E c \in Cycles : CycleStorageRejects(c)

Spec == Init /\ [][Next]_vars

(***************************************************************************)
(* Claims about the refresh cycle (checked under Spec).                    *)
(***************************************************************************)
\* The call has returned and none of its own storage operations was rejected.
Completed(cy) == cy.pc = "done" /\ ~cy.ownFailure

\* The source's fetch delivered a feed and storing it was not rejected.
SourceSucceeded(t) == t.fetched = "feed" /\ ~t.putRejected

\* The entry the cycle must persist for a source that succeeded: the
\* validators its response returned, or the entry read when none came back.
ExpectedEntry(cy, i) ==
    LET v == cy.task[i].returned
    IN  IF v.etag # Undefined \/ v.lastModified # Undefined \/ v.siteLink # Undefined
        THEN Entry(v.etag, v.lastModified, v.siteLink)
        ELSE cy.allValidators[cy.subscriptions[i].id]

C6_SourceErrorsDoNotPropagate ==
    \A c \in Cycles :
        Completed(cycles[c])
            => /\ cycles[c].result = "success"
               /\ cycles[c].trigger = "message" => cycles[c].response = "success"

\* C6 witness: an answered REFRESH_FEEDS cycle in which every source failed,
\* one in its fetch and one in its put.
C6_Witness ==
    \E c \in Cycles :
        LET cy == cycles[c]
        IN  /\ Completed(cy)
            /\ cy.trigger = "message"
            /\ cy.response = "success"
            /\ Len(cy.subscriptions) > 1
            /\ \A i \in TaskIds(cy) : cy.task[i].outcome = "failed"
            /\ \E i \in TaskIds(cy) : cy.task[i].fetched = "error"
            /\ \E i \in TaskIds(cy) : cy.task[i].putRejected

\* The tail of a cycle: one saveFeedValidators with the working map, one
\* badge recomputation and one timestamp, none before the fan-in.
WroteTailOnce(cy) ==
    /\ cy.validatorWrites = 1
    /\ cy.savedValidators = cy.updatedValidators
    /\ cy.badgeWrites = 1
    /\ cy.tsWrites = 1
    /\ ~cy.earlyWrite

\* C7 (as claimed): every refreshAllFeeds call, whatever the registry holds,
\* performs exactly one saveFeedValidators with the merged working map,
\* recomputes the badge and records one completion timestamp, after every
\* per-source task has settled (stated of the calls none of whose own storage
\* operations is rejected).
C7_EveryCycleWritesTailOnce ==
    \A c \in Cycles : Completed(cycles[c]) => WroteTailOnce(cycles[c])

\* C7 (amended): every refreshAllFeeds call that reads a non-empty registry
\* performs exactly one saveFeedValidators with the merged working map,
\* recomputes the badge and records one completion timestamp, after every
\* per-source task has settled.
C7_NonEmptyCycleWritesTailOnce ==
    \A c \in Cycles :
        (Completed(cycles[c]) /\ Len(cycles[c].subscriptions) > 0)
            => WroteTailOnce(cycles[c])

\* C7 witness: a completed cycle over a non-empty registry in which no
\* source stored anything, with its three final writes done.
C7_Witness ==
    \E c \in Cycles :
        LET cy == cycles[c]
        IN  /\ Completed(cy)
            /\ Len(cy.subscriptions) > 1
            /\ \A i \in TaskIds(cy) : cy.task[i].outcome = "failed"
            /\ cy.validatorWrites = 1 /\ cy.badgeWrites = 1 /\ cy.tsWrites = 1
            /\ lastRefreshedAt = clock

\* C8: a cycle writes the validator map, the badge and the timestamp only
\* when every one of its per-source tasks has settled, nothing else writes
\* them, and a step of a per-source task changes no persisted state but its
\* own item partition.
C8_FinalWritesOnlyAfterFanIn ==
    [][/\ \A c \in Cycles :
            LET cy == cycles[c]
                cz == cycles'[c]
            IN  /\ (\/ cz.validatorWrites # cy.validatorWrites
                    \/ cz.badgeWrites # cy.badgeWrites
                    \/ cz.tsWrites # cy.tsWrites)
                      => cy.pc \notin {"idle", "read"} /\ Unsettled(cy) = {}
                /\ \A i \in TaskIds(cy) :
                      (cy.pc = "tasks" /\ cz.task[i] # cy.task[i])
                        => /\ feedMeta' = feedMeta
                           /\ badge' = badge
                           /\ lastRefreshedAt' = lastRefreshedAt
                           /\ \A g \in Feeds \ {cy.subscriptions[i].id} :
                                 items'[g] = items[g]
       /\ (feedMeta' # feedMeta \/ badge' # badge \/ lastRefreshedAt' # lastRefreshedAt)
            => \E c \in Cycles :
                  /\ Unsettled(cycles[c]) = {}
                  /\ \/ cycles'[c].validatorWrites # cycles[c].validatorWrites
                     \/ cycles'[c].badgeWrites # cycles[c].badgeWrites
                     \/ cycles'[c].tsWrites # cycles[c].tsWrites]_vars

\* C8 witness: a cycle has made its three final writes after a fan-out in
\* which one task wrote its partition and another failed.
C8_Witness ==
    \E c \in Cycles :
        LET cy == cycles[c]
        IN  /\ cy.validatorWrites = 1 /\ cy.badgeWrites = 1 /\ cy.tsWrites = 1
            /\ ~cy.earlyWrite
            /\ \E i \in TaskIds(cy) : cy.task[i].wrote
            /\ \E i \in TaskIds(cy) : cy.task[i].outcome = "failed"

C10_FetchIsConditional ==
    \A c \in Cycles :
        \A i \in TaskIds(cycles[c]) :
            LET t == cycles[c].task[i]
            IN  t.pc # "none"
                    => /\ t.request.ifNoneMatch = t.validator.etag
                       /\ t.request.ifModifiedSince = t.validator.lastModified
                       /\ (t.fetched = "feed" /\ t.respEtag # Undefined)
                              => t.returned.etag = t.respEtag

(***************************************************************************)
(* SpecOps: the registry operations.  The background worker serves         *)
(* ADD_FEED (addNewFeed) and DELETE_FEED (deleteFeed) messages and runs    *)
(* refresh cycles; the Dashboard toggles stars by writing the registry     *)
(* from its own state, which follows storage through the onChanged         *)
(* listener.  Every await is a step, so calls interleave.                  *)
(***************************************************************************)
\* The urls a user may type.
MaxUrls == 2
Urls == 1..MaxUrls

\* Registries the operations start from: empty, or one feed added earlier.
MaxInitialFeeds == 1

\* Operations and cycles called in one behaviour.
MaxStarted == 2

OpInFlight(op) == op.pc \notin {"idle", "done"}
CycleInFlight(cy) == cy.pc \notin {"idle", "done"}

\* The number of operations and cycles called so far.
OpsStarted ==
    Cardinality({o \in Slots : ops[o].pc # "idle"})
        + Cardinality({c \in Cycles : cycles[c].pc # "idle"})

\* Nothing else is running.
Quiet(o) ==
    /\ \A p \in Slots \ {o} : ~OpInFlight(ops[p])
    /\ \A c \in Cycles : ~CycleInFlight(cycles[c])

\* Call frames are interchangeable: a call takes the first idle one.
FirstIdleOp(o) ==
    /\ ops[o].pc = "idle"
    /\ \A p \in Slots : p < o => ops[p].pc # "idle"

NewOp(o, kind) ==
    [IdleOp EXCEPT !.kind = kind, !.quietAtCall = Quiet(o), !.epoch = OpsStarted + 1]

\* .catch((err) => sendResponse({ success: false, error: err.toString() }))
OpFails(op, error) ==
    [op EXCEPT !.pc = "done", !.response = "failure", !.error = error]

\* .then(() => sendResponse({ success: true }))
OpSucceeds(op) == [op EXCEPT !.pc = "done", !.response = "success"]

Wrote(op, what) == [op EXCEPT !.writes = Append(@, what)]

\* A faulty check: it never finds the url.
IsDuplicate_Never(subscriptions, url) == FALSE

\* A faulty check: only the last subscription is compared.
IsDuplicate_LastOnly(subscriptions, url) ==
    Len(subscriptions) > 0 /\ subscriptions[Len(subscriptions)].url = url

\* subscriptions.some(s => s.url === url)
IsDuplicate(subscriptions, url) ==
    \E k \in 1..Len(subscriptions) : subscriptions[k].url = url

\* A faulty add: a fetch that failed is treated as an empty feed.
AddAfterFetch_IgnoresFailure(op, feedData, response) ==
    [op EXCEPT !.pc = "getSubs",
               !.fetched = feedData.kind,
               !.fetchedItems = feedData.items,
               !.returned = Entry(feedData.etag, feedData.lastModified, feedData.siteLink),
               !.respEtag = response.etag]

\* After `await fetchFeed(url)`: a rejection leaves addNewFeed at once,
\* otherwise the feed data is kept for the steps that follow.
AddAfterFetch(op, feedData, response) ==
    IF feedData.kind = "error" THEN OpFails([op EXCEPT !.fetched = "error"], "fetch")
    ELSE [op EXCEPT !.pc = "getSubs",
                    !.fetched = feedData.kind,
                    !.fetchedItems = feedData.items,
                    !.returned = Entry(feedData.etag, feedData.lastModified, feedData.siteLink),
                    !.respEtag = response.etag]

\* if (etag || lastModified || siteLink) { ... } await updateBadge()
AddAfterPut(op) ==
    IF Truthy(op.returned.etag) \/ Truthy(op.returned.lastModified)
          \/ Truthy(op.returned.siteLink)
    THEN [op EXCEPT !.pc = "getVals"]
    ELSE [op EXCEPT !.pc = "badgeSubs"]

\* A faulty order: the partition is removed before the subscription record.
DeleteNext_ItemsFirst(pc) ==
    CASE pc = "getSubs" -> "removeItems"
      [] pc = "removeItems" -> "saveSubs"
      [] pc = "saveSubs" -> "getVals"

\* deleteFeed's steps 1 to 3, in the order of its statements.
DeleteNext(pc) ==
    CASE pc = "getSubs" -> "saveSubs"
      [] pc = "saveSubs" -> "removeItems"
      [] pc = "removeItems" -> "getVals"

\* A faulty removal: the partition is left as it is.
RemovedPartition_Keeps(parts, feedId) == parts

\* chrome.storage.local.remove(`items_${feedId}`)
RemovedPartition(parts, feedId) == [parts EXCEPT ![feedId] = <<>>]

\* subscriptions.filter(s => s.id !== feedId)
WithoutFeed(subscriptions, feedId) ==
    SelectSeq(subscriptions, LAMBDA s : s.id # feedId)

\* subscriptions.map(s => s.id === feedId ? { ...s, starred: !s.starred } : s)
StarToggled(subscriptions, feedId) ==
    [k \in 1..Len(subscriptions) |->
        IF subscriptions[k].id = feedId
        THEN [subscriptions[k] EXCEPT !.starred = ~@]
        ELSE subscriptions[k]] \o <<>>

\* An ADD_FEED message arrives: addNewFeed(url) calls fetchFeed(url).
AddFeedCall(o, url) ==
    /\ FirstIdleOp(o)
    /\ OpsStarted < MaxStarted
    /\ ops' = [ops EXCEPT ![o] =
          [NewOp(o, "add") EXCEPT !.pc = "fetch", !.url = url,
                                  !.presentAtCall =
                                      url \in {subs[k].url : k \in DOMAIN subs}]]
    /\ clock' = clock + 1
    /\ UNCHANGED <<items, subs, feedMeta, lastRefreshedAt, badge, cycles, nextId, uiSubs>>
    /\ UNCHANGED storeVars
    /\ UNCHANGED parseVars

\* addNewFeed: const feedData = await fetchFeed(url)
AddFetchSettles(o, response) ==
    /\ ops[o].kind = "add"
    /\ ops[o].pc = "fetch"
    /\ ops' = [ops EXCEPT ![o] =
          AddAfterFetch(@, FetchFeed(ops[o].url, NoEntry, response), response)]
    /\ UNCHANGED <<items, clock, subs, feedMeta, lastRefreshedAt, badge, cycles, nextId, uiSubs>>
    /\ UNCHANGED storeVars
    /\ UNCHANGED parseVars

\* addNewFeed: await getSubscriptions(), the duplicate check, newSub with a
\* fresh id, and the call of saveSubscriptions([...subscriptions, newSub]).
AddGetSubscriptions(o) ==
    /\ ops[o].kind = "add"
    /\ ops[o].pc = "getSubs"
    /\ IF IsDuplicate(subs, ops[o].url)
       THEN /\ ops' = [ops EXCEPT ![o] = OpFails([@ EXCEPT !.subscriptions = subs], "duplicate")]
            /\ nextId' = nextId
       ELSE /\ nextId <= MaxFeeds
            /\ ops' = [ops EXCEPT ![o].pc = "saveSubs",
                                  ![o].subscriptions = subs,
                                  ![o].feedId = nextId,
                                  ![o].toSave = Append(subs, Subscription(nextId, ops[o].url))]
            /\ nextId' = nextId + 1
    /\ UNCHANGED <<items, clock, subs, feedMeta, lastRefreshedAt, badge, cycles, uiSubs>>
    /\ UNCHANGED storeVars
    /\ UNCHANGED parseVars

\* addNewFeed: await saveSubscriptions(...) resolves; the items are tagged and
\* saveItems is called (it returns at once for an empty batch).
AddSaveSubscriptions(o) ==
    /\ ops[o].kind = "add"
    /\ ops[o].pc = "saveSubs"
    /\ subs' = ops[o].toSave
    /\ LET itemsToSave == TagItems(ops[o].fetchedItems, ops[o].feedId, clock)
           op == [Wrote(ops[o], "subscriptions") EXCEPT !.itemsToSave = itemsToSave]
       IN  ops' = [ops EXCEPT ![o] =
              IF Len(itemsToSave) = 0 THEN AddAfterPut(op) ELSE [op EXCEPT !.pc = "itemsGet"]]
    /\ UNCHANGED <<items, clock, feedMeta, lastRefreshedAt, badge, cycles, nextId, uiSubs>>
    /\ UNCHANGED storeVars
    /\ UNCHANGED parseVars

\* addNewFeed -> saveItems reads the new partition
AddSaveItemsGet(o) ==
    /\ ops[o].kind = "add"
    /\ ops[o].pc = "itemsGet"
    /\ ops' = [ops EXCEPT ![o].pc = "itemsSet", ![o].currentItems = items[ops[o].feedId]]
    /\ UNCHANGED <<items, clock, subs, feedMeta, lastRefreshedAt, badge, cycles, nextId, uiSubs>>
    /\ UNCHANGED storeVars
    /\ UNCHANGED parseVars

\* addNewFeed -> saveItems writes the new partition; addNewFeed goes on
AddSaveItemsSet(o) ==
    /\ ops[o].kind = "add"
    /\ ops[o].pc = "itemsSet"
    /\ LET merged == MergeNew(ops[o].currentItems, ops[o].itemsToSave)
       IN  \E hi \in SortChoices(merged) :
              LET written == TrimToCap(merged, hi)
              IN  /\ items' = [items EXCEPT ![ops[o].feedId] = written]
                  /\ ops' = [ops EXCEPT ![o] =
                        AddAfterPut([Wrote(@, "items") EXCEPT !.stored = written])]
    /\ UNCHANGED <<clock, subs, feedMeta, lastRefreshedAt, badge, cycles, nextId, uiSubs>>
    /\ UNCHANGED storeVars
    /\ UNCHANGED parseVars

\* A DELETE_FEED message arrives: deleteFeed(feedId) calls getSubscriptions().
DeleteFeedCall(o, feedId) ==
    /\ FirstIdleOp(o)
    /\ OpsStarted < MaxStarted
    /\ ops' = [ops EXCEPT ![o] =
          [NewOp(o, "delete") EXCEPT !.pc = "getSubs", !.feedId = feedId,
                                     !.presentAtCall = feedId \in SubIds(subs)]]
    /\ UNCHANGED <<items, clock, subs, feedMeta, lastRefreshedAt, badge, cycles, nextId, uiSubs>>
    /\ UNCHANGED storeVars
    /\ UNCHANGED parseVars

\* deleteFeed: const subscriptions = await getSubscriptions(), and the call of
\* saveSubscriptions(subscriptions.filter(...))
DeleteGetSubscriptions(o) ==
    /\ ops[o].kind = "delete"
    /\ ops[o].pc = "getSubs"
    /\ ops' = [ops EXCEPT ![o].pc = DeleteNext("getSubs"),
                          ![o].subscriptions = subs,
                          ![o].toSave = WithoutFeed(subs, ops[o].feedId)]
    /\ UNCHANGED <<items, clock, subs, feedMeta, lastRefreshedAt, badge, cycles, nextId, uiSubs>>
    /\ UNCHANGED storeVars
    /\ UNCHANGED parseVars

\* deleteFeed: await saveSubscriptions(...) resolves
DeleteSaveSubscriptions(o) ==
    /\ ops[o].kind = "delete"
    /\ ops[o].pc = "saveSubs"
    /\ subs' = ops[o].toSave
    /\ ops' = [ops EXCEPT ![o] = [Wrote(@, "subscriptions") EXCEPT !.pc = DeleteNext("saveSubs")]]
    /\ UNCHANGED <<items, clock, feedMeta, lastRefreshedAt, badge, cycles, nextId, uiSubs>>
    /\ UNCHANGED storeVars
    /\ UNCHANGED parseVars

\* deleteFeed: await chrome.storage.local.remove(`items_${feedId}`) resolves
DeleteRemoveItems(o) ==
    /\ ops[o].kind = "delete"
    /\ ops[o].pc = "removeItems"
    /\ items' = RemovedPartition(items, ops[o].feedId)
    /\ ops' = [ops EXCEPT ![o] = [Wrote(@, "items") EXCEPT !.pc = DeleteNext("removeItems")]]
    /\ UNCHANGED <<clock, subs, feedMeta, lastRefreshedAt, badge, cycles, nextId, uiSubs>>
    /\ UNCHANGED storeVars
    /\ UNCHANGED parseVars

\* addNewFeed / deleteFeed: const allValidators = await getFeedValidators();
\* the entry is set (add) or deleted (delete) and saveFeedValidators called.
OpGetFeedValidators(o) ==
    /\ ops[o].pc = "getVals"
    /\ ops' = [ops EXCEPT ![o].pc = "saveVals",
                          ![o].validatorsToSave =
                              [feedMeta EXCEPT ![ops[o].feedId] =
                                  IF ops[o].kind = "add" THEN ops[o].returned ELSE NoEntry]]
    /\ UNCHANGED <<items, clock, subs, feedMeta, lastRefreshedAt, badge, cycles, nextId, uiSubs>>
    /\ UNCHANGED storeVars
    /\ UNCHANGED parseVars

\* addNewFeed / deleteFeed: await saveFeedValidators(allValidators) resolves;
\* updateBadge is called.
OpSaveFeedValidators(o) ==
    /\ ops[o].pc = "saveVals"
    /\ feedMeta' = ops[o].validatorsToSave
    /\ ops' = [ops EXCEPT ![o] = [Wrote(@, "feedMeta") EXCEPT !.pc = "badgeSubs"]]
    /\ UNCHANGED <<items, clock, subs, lastRefreshedAt, badge, cycles, nextId, uiSubs>>
    /\ UNCHANGED storeVars
    /\ UNCHANGED parseVars

\* updateBadge -> getItems(): the registry is read; with no subscription the
\* badge is cleared at once.  The operation then resolves.
OpBadgeGetSubscriptions(o) ==
    /\ ops[o].pc = "badgeSubs"
    /\ IF Len(subs) = 0
       THEN /\ badge' = BadgeText(0)
            /\ ops' = [ops EXCEPT ![o] = OpSucceeds(Wrote(@, "badge"))]
       ELSE /\ badge' = badge
            /\ ops' = [ops EXCEPT ![o].pc = "badgeItems", ![o].badgeSubs = subs]
    /\ UNCHANGED <<items, clock, subs, feedMeta, lastRefreshedAt, cycles, nextId, uiSubs>>
    /\ UNCHANGED storeVars
    /\ UNCHANGED parseVars

\* updateBadge -> getItems(): the partitions are read, the unread items
\* counted and the badge text set.  The operation then resolves.
OpBadgeGetItems(o) ==
    /\ ops[o].pc = "badgeItems"
    /\ badge' = BadgeText(UnreadCount(ops[o].badgeSubs, items))
    /\ ops' = [ops EXCEPT ![o] = OpSucceeds(Wrote([@ EXCEPT !.badgeSubs = <<>>], "badge"))]
    /\ UNCHANGED <<items, clock, subs, feedMeta, lastRefreshedAt, cycles, nextId, uiSubs>>
    /\ UNCHANGED storeVars
    /\ UNCHANGED parseVars

\* chrome.storage rejects the read or write an operation is waiting for: the
\* operation throws.
OpStorageRejects(o) ==
    /\ OpInFlight(ops[o])
    /\ ops[o].pc # "fetch"
    /\ ops' = [ops EXCEPT ![o] = OpFails(@, "storage")]
    /\ UNCHANGED <<items, clock, subs, feedMeta, lastRefreshedAt, badge, cycles, nextId, uiSubs>>
    /\ UNCHANGED storeVars
    /\ UNCHANGED parseVars

\* Dashboard.toggleStar(feedId): the registry is mapped from the Dashboard's
\* state, the state is set, and saveSubscriptions(updated) is called.
ToggleStar(o, feedId) ==
    /\ FirstIdleOp(o)
    /\ OpsStarted < MaxStarted
    /\ feedId \in SubIds(uiSubs)
    /\ uiSubs' = StarToggled(uiSubs, feedId)
    /\ ops' = [ops EXCEPT ![o] =
          [NewOp(o, "star") EXCEPT !.pc = "saveSubs", !.feedId = feedId,
                                   !.subscriptions = uiSubs,
                                   !.toSave = StarToggled(uiSubs, feedId)]]
    /\ UNCHANGED <<items, clock, subs, feedMeta, lastRefreshedAt, badge, cycles, nextId>>
    /\ UNCHANGED storeVars
    /\ UNCHANGED parseVars

\* toggleStar: await saveSubscriptions(updated) resolves
StarSaveSubscriptions(o) ==
    /\ ops[o].kind = "star"
    /\ ops[o].pc = "saveSubs"
    /\ subs' = ops[o].toSave
    /\ ops' = [ops EXCEPT ![o] = OpSucceeds(Wrote(@, "subscriptions"))]
    /\ UNCHANGED <<items, clock, feedMeta, lastRefreshedAt, badge, cycles, nextId, uiSubs>>
    /\ UNCHANGED storeVars
    /\ UNCHANGED parseVars

\* The Dashboard's chrome.storage.onChanged listener runs:
\* setSubscriptions(changes.subscriptions.newValue)
SubscriptionsChanged ==
    /\ uiSubs # subs
    /\ uiSubs' = subs
    /\ UNCHANGED <<items, clock, subs, feedMeta, lastRefreshedAt, badge, cycles, ops, nextId>>
    /\ UNCHANGED storeVars
    /\ UNCHANGED parseVars

\* The alarm fires while the operations run.
OpsStartRefresh(c) ==
    /\ OpsStarted < MaxStarted
    /\ StartRefresh(c, "alarm")

OpsInit ==
    /\ \E n \in 0..MaxInitialFeeds :
          /\ subs = Registry(n)
          /\ items = [f \in Feeds |-> IF f <= n THEN <<SeedItem(f)>> ELSE <<>>]
          /\ badge = BadgeText(n)
          /\ nextId = n + 1
    /\ uiSubs = subs
    /\ ops = [o \in Slots |-> IdleOp]
    /\ article = NoArticle
    /\ fetches = <<>>
    /\ opml = NoOpml
    /\ importing = NoImport
    /\ alarm = NoAlarm
    /\ clock = Now0
    /\ feedMeta = [f \in Feeds |-> NoEntry]
    /\ lastRefreshedAt = NeverRefreshed
    /\ cycles = [c \in Cycles |-> IdleCycle]
    /\ calls = [s \in Slots |-> IdleCall]
    /\ opsLeft = 0
    /\ evicted = [f \in Feeds |-> {}]
    /\ raced = FALSE
    /\ lastWrite = NoWrite

OpsNext ==
    \/ \E o \in Slots, url \in Urls : AddFeedCall(o, url)
    \/ \E o \in Slots, r \in Responses : AddFetchSettles(o, r)
    \/ \E o \in Slots : AddGetSubscriptions(o)
    \/ \E o \in Slots : AddSaveSubscriptions(o)
    \/ \E o \in Slots : AddSaveItemsGet(o)
    \/ \E o \in Slots : AddSaveItemsSet(o)
    \/ \E o \in Slots, f \in Feeds : DeleteFeedCall(o, f)
    \/ \E o \in Slots : DeleteGetSubscriptions(o)
    \/ \E o \in Slots : DeleteSaveSubscriptions(o)
    \/ \E o \in Slots : DeleteRemoveItems(o)
    \/ \E o \in Slots : OpGetFeedValidators(o)
    \/ \E o \in Slots : OpSaveFeedValidators(o)
    \/ \E o \in Slots : OpBadgeGetSubscriptions(o)
    \/ \E o \in Slots : OpBadgeGetItems(o)
    \/ \E o \in Slots : OpStorageRejects(o)
    \/ \E o \in Slots, f \in Feeds : ToggleStar(o, f)
    \/ \E o \in Slots : StarSaveSubscriptions(o)
    \/ SubscriptionsChanged
    \/ \E c \in Cycles : OpsStartRefresh(c)
    \/ \E c \in Cycles : CycleGetSubscriptions(c)
    \/ \E c \in Cycles : CycleGetFeedValidators(c)
    \/ \E c \in Cycles, i \in Feeds, r \in Responses : FetchSettles(c, i, r)
    \/ \E c \in Cycles, i \in Feeds : TaskSaveItemsGet(c, i)
    \/ \E c \in Cycles, i \in Feeds : TaskSaveItemsSet(c, i)
    \/ \E c \in Cycles, i \in Feeds : TaskStorageRejects(c, i)
    \/ \E c \in Cycles : CycleSaveFeedValidators(c)
    \/ \E c \in Cycles : UpdateBadgeGetSubscriptions(c)
    \/ \E c \in Cycles : UpdateBadgeGetItems(c)
    \/ \E c \in Cycles : CycleSaveLastRefreshed(c)
    \/ \E c \in Cycles : CycleStorageRejects(c)

SpecOps == OpsInit /\ [][OpsNext]_vars

(***************************************************************************)
(* Claims about the registry operations (checked under SpecOps).           *)
(***************************************************************************)
\* Nothing else ran while the operation did, nor has anything started since.
RanAlone(op) == op.quietAtCall /\ OpsStarted = op.epoch

Returned(op, kind, response) ==
    op.kind = kind /\ op.pc = "done" /\ op.response = response

\* C11: after deleteFeed(f) has completed (no other operation running
\* meanwhile), the partition of f holds no items and the validator map has no
\* entry for f.
C11_DeleteCascades ==
    \A o \in Slots :
        (Returned(ops[o], "delete", "success") /\ RanAlone(ops[o]))
            => /\ items[ops[o].feedId] = <<>>
               /\ ~feedMeta[ops[o].feedId].present

\* A subscribed feed with stored items has been deleted.
C11_Witness ==
    \E o \in Slots :
        /\ Returned(ops[o], "delete", "success")
        /\ RanAlone(ops[o])
        /\ ops[o].presentAtCall
        /\ ops[o].feedId <= MaxInitialFeeds
        /\ ops[o].writes = <<"subscriptions", "items", "feedMeta", "badge">>

IsPrefix(p, q) == Len(p) <= Len(q) /\ SubSeq(q, 1, Len(p)) = p

\* C12: deleteFeed writes in the order partition, validator entry, badge,
\* subscription record last, and in no intermediate state of the operation is
\* the subscription record already gone while the partition or the validator
\* entry is still present.
C12_SubscriptionRemovedLast ==
    \A o \in Slots :
        (ops[o].kind = "delete" /\ RanAlone(ops[o]))
            => /\ IsPrefix(ops[o].writes, <<"items", "feedMeta", "badge", "subscriptions">>)
               /\ (OpInFlight(ops[o]) /\ ops[o].feedId \notin SubIds(subs))
                     => /\ items[ops[o].feedId] = <<>>
                        /\ ~feedMeta[ops[o].feedId].present

\* C12 (amended): deleteFeed writes in the order subscription record,
\* partition, validator entry, badge, and in no intermediate state of the
\* operation has it deleted the partition or the validator entry while the
\* subscription record is still in the registry.
C12_SubscriptionRemovedFirst ==
    \A o \in Slots :
        ops[o].kind = "delete"
            => /\ IsPrefix(ops[o].writes, <<"subscriptions", "items", "feedMeta", "badge">>)
               /\ Returned(ops[o], "delete", "success")
                     => ops[o].writes = <<"subscriptions", "items", "feedMeta", "badge">>
               /\ (RanAlone(ops[o]) /\ OpInFlight(ops[o])
                                    /\ ops[o].feedId \in SubIds(subs))
                     => ops[o].writes = <<>>

\* Mid-delete: the record is gone and the partition still holds items.
C12_Witness ==
    \E o \in Slots :
        /\ ops[o].kind = "delete"
        /\ OpInFlight(ops[o])
        /\ RanAlone(ops[o])
        /\ ops[o].presentAtCall
        /\ ops[o].writes = <<"subscriptions">>
        /\ ops[o].feedId \notin SubIds(subs)
        /\ items[ops[o].feedId] # <<>>

\* C13: deleteFeed(feedId) with a feedId that is not in the registry (and no
\* storage call rejected) is answered { success: false, error } and writes
\* nothing.
C13_UnknownFeedIsRejected ==
    \A o \in Slots :
        (ops[o].kind = "delete" /\ ops[o].pc = "done" /\ RanAlone(ops[o])
                                /\ ~ops[o].presentAtCall /\ ops[o].error # "storage")
            => /\ ops[o].response = "failure"
               /\ ops[o].writes = <<>>

\* C14: in every reachable state, whatever the interleaving of addNewFeed,
\* deleteFeed, refresh cycles and star toggles, no two subscriptions in the
\* registry have the same url.
C14_UrlsUnique ==
    \A j, k \in 1..Len(subs) : subs[j].url = subs[k].url => j = k

\* Two adds of the same url overlapped, both read the registry before either
\* wrote it, and both were answered { success: true }.
C14_Witness ==
    /\ \A o \in Slots : Returned(ops[o], "add", "success")
    /\ ~ops[2].quietAtCall
    /\ ops[1].url = ops[2].url
    /\ ops[1].subscriptions = ops[2].subscriptions
    /\ Len(subs) = 2

\* C15: addNewFeed(url) for a url that is already in the registry is answered
\* { success: false, error } with the duplicate error, and writes nothing.
C15_DuplicateAddFailsAsDuplicate ==
    \A o \in Slots :
        (ops[o].kind = "add" /\ ops[o].pc = "done" /\ RanAlone(ops[o])
                             /\ ops[o].presentAtCall /\ ops[o].error # "storage")
            => /\ ops[o].response = "failure"
               /\ ops[o].error = "duplicate"
               /\ ops[o].writes = <<>>

\* C15 (amended): addNewFeed(url) for a url that is already in the registry is
\* answered { success: false, error } and writes nothing; the error is the
\* duplicate error when the fetch of the url succeeded and the registry was
\* read, and the fetch's error when the fetch failed.
C15_DuplicateAddFails ==
    \A o \in Slots :
        (ops[o].kind = "add" /\ ops[o].pc = "done" /\ RanAlone(ops[o])
                             /\ ops[o].presentAtCall)
            => /\ ops[o].response = "failure"
               /\ ops[o].writes = <<>>
               /\ ops[o].fetched = "error" => ops[o].error = "fetch"
               /\ (ops[o].fetched = "feed" /\ ops[o].error # "storage")
                     => ops[o].error = "duplicate"

\* A duplicate add whose fetch succeeded has been refused.
C15_Witness ==
    \E o \in Slots :
        /\ Returned(ops[o], "add", "failure")
        /\ RanAlone(ops[o])
        /\ ops[o].presentAtCall
        /\ ops[o].fetched = "feed"
        /\ ops[o].error = "duplicate"

\* C16: when the initial fetch of addNewFeed(url) fails, no subscription
\* record is created, no partition or validator entry is written, and the
\* caller receives { success: false, error }.
C16_FailedFetchCreatesNothing ==
    \A o \in Slots :
        (ops[o].kind = "add" /\ ops[o].fetched = "error")
            => /\ Returned(ops[o], "add", "failure")
               /\ ops[o].error = "fetch"
               /\ ops[o].writes = <<>>
               /\ RanAlone(ops[o]) =>
                     \A k \in 1..Len(subs) :
                         subs[k].url = ops[o].url => ops[o].presentAtCall

\* The add of a url not yet subscribed has failed at its fetch.
C16_Witness ==
    \E o \in Slots :
        /\ Returned(ops[o], "add", "failure")
        /\ ops[o].fetched = "error"
        /\ ~ops[o].presentAtCall
        /\ RanAlone(ops[o])

\* The number of writes of `what` the operation made.
WritesOf(op, what) == Cardinality({k \in 1..Len(op.writes) : op.writes[k] = what})

\* The registry has exactly one more record than the add read, with its url;
\* the new partition holds the fetched items, all unread, within the cap; the
\* badge was recomputed.
AddedAndSeeded(op) ==
    /\ subs = Append(op.subscriptions, Subscription(op.feedId, op.url))
    /\ Cardinality({k \in 1..Len(subs) : subs[k].url = op.url}) = 1
    /\ IdsOf(items[op.feedId]) = IdsOf(op.fetchedItems)
    /\ Len(items[op.feedId]) = Len(op.fetchedItems)
    /\ Len(items[op.feedId]) <= MAX_ITEMS_PER_FEED
    /\ \A k \in 1..Len(items[op.feedId]) :
          ~items[op.feedId][k].read /\ items[op.feedId][k].feedId = op.feedId
    /\ op.writes[Len(op.writes)] = "badge"

\* C17: after a successful addNewFeed(url) the registry contains exactly one
\* new subscription with that url, its partition holds the fetched items
\* (unread, at most the cap), the validator map has an entry for the new feed
\* exactly when the response carried a validator, written by a single
\* validator-store write, and the badge has been recomputed.
C17_SuccessfulAdd ==
    \A o \in Slots :
        (Returned(ops[o], "add", "success") /\ RanAlone(ops[o]))
            => /\ AddedAndSeeded(ops[o])
               /\ feedMeta[ops[o].feedId].present <=> Truthy(ops[o].respEtag)
               /\ WritesOf(ops[o], "feedMeta") = IF Truthy(ops[o].respEtag) THEN 1 ELSE 0

\* No operation or cycle is in flight.
Quiescent ==
    /\ \A o \in Slots : ~OpInFlight(ops[o])
    /\ \A c \in Cycles : ~CycleInFlight(cycles[c])

\* C18: under any interleaving of addNewFeed, deleteFeed and refresh cycles,
\* in every state in which no operation is in flight (and none was cut short
\* by a rejected storage call), every non-empty item partition belongs to a
\* subscription that is in the registry.
C18_NoOrphanPartitions ==
    (Quiescent /\ \A o \in Slots : ops[o].error # "storage" /\ ops[o].kind # "star")
        => \A f \in Feeds : items[f] # <<>> => f \in SubIds(subs)

(***************************************************************************)
(* SpecParse: fetchFeed's normalisation.  Three documents, one per         *)
(* dialect, have been fetched and parsed by the XML parser; each encodes   *)
(* the same article, in one of the ways its dialect offers.  fetchFeed     *)
(* dispatches each on its root and normalises it.                          *)
(***************************************************************************)
\* Instants a document may be dated with.
MaxDates == 2

Rfc822(d) == IF d = 1 THEN "Mon, 01 Jan 2024 00:00:00 GMT" ELSE "Tue, 02 Jan 2024 00:00:00 GMT"
Iso(d) == IF d = 1 THEN "2024-01-01T00:00:00Z" ELSE "2024-01-02T00:00:00Z"

\* An article: its content, and a summary when the feed also carries one.
Articles ==
    {[title |-> "T", link |-> "https://x/1", content |-> "C", summary |-> sm, date |-> d] :
        sm \in {"", "S"}, d \in 1..MaxDates}

\* <description> and <content:encoded> of an RSS item that carries the article
RssContent(a) ==
    IF a.summary = ""
    THEN {<<Str(a.content), Absent>>, <<Absent, Str(a.content)>>}
    ELSE {<<Str(a.summary), Str(a.content)>>}

RSS2Items(a) ==
    {[guid |-> g, link |-> Str(a.link), title |-> Str(a.title),
      description |-> c[1], contentEncoded |-> c[2], pubDate |-> Str(p)] :
        g \in {Absent, Obj("g1")}, c \in RssContent(a), p \in {Rfc822(a.date), Iso(a.date)}}

AtomLinks(a) ==
    { One([rel |-> "", href |-> Str(a.link)]),
      One([rel |-> "alternate", href |-> Str(a.link)]),
      Many(<<[rel |-> "self", href |-> Str("https://x/feed")],
             [rel |-> "alternate", href |-> Str(a.link)]>>) }

\* <content> and <summary>
AtomContent(a) ==
    IF a.summary = ""
    THEN {<<Obj(a.content), Absent>>, <<Absent, Str(a.content)>>}
    ELSE {<<Obj(a.content), Str(a.summary)>>}

\* <updated> and <published>
AtomDates(a) ==
    {<<Str(Iso(a.date)), Absent>>, <<Absent, Str(Iso(a.date))>>,
     <<Str(Iso(a.date)), Str(Iso(a.date))>>}

AtomEntries(a) ==
    {[id |-> Str("urn:1"), title |-> t, link |-> l, content |-> c[1],
      summary |-> c[2], updated |-> d[1], published |-> d[2]] :
        t \in {Str(a.title), Obj(a.title)}, l \in AtomLinks(a),
        c \in AtomContent(a), d \in AtomDates(a)}

RSS1Items(a) ==
    {[link |-> Str(a.link), title |-> Str(a.title), description |-> c[1],
      contentEncoded |-> c[2], dcDate |-> Str(Iso(a.date))] : c \in RssContent(a)}

RssDoc(item) ==
    [rss |-> [present |-> TRUE, title |-> Str("Feed"), item |-> item],
     feed |-> NoAtom, rdf |-> NoRdf]
AtomDoc(entry) ==
    [rss |-> NoRss, rdf |-> NoRdf,
     feed |-> [present |-> TRUE, title |-> Str("Feed"), entry |-> entry]]
RdfDoc(item) ==
    [rss |-> NoRss, feed |-> NoAtom,
     rdf |-> [present |-> TRUE, title |-> Str("Feed"), item |-> item]]

\* A fetchFeed call whose response text has been parsed.
Fetch(result) == [result |-> result, returned |-> FALSE, feed |-> ParseThrown("none")]

\* fetchFeed, lines 28-39: the document is dispatched and normalised, and
\* fetchFeed returns the feed or throws.
FetchFeedReturns(k) ==
    /\ k \in 1..Len(fetches)
    /\ ~fetches[k].returned
    /\ fetches' = [fetches EXCEPT ![k].returned = TRUE,
                                  ![k].feed = ParseFeed(fetches[k].result)]
    /\ UNCHANGED <<article, opml, importing, alarm, items, clock>>
    /\ UNCHANGED orchVars
    /\ UNCHANGED regVars
    /\ UNCHANGED storeVars

ParseInit ==
    /\ \E a \in Articles :
       \E r \in RSS2Items(a), e \in AtomEntries(a), i \in RSS1Items(a) :
          /\ article = a
          /\ fetches = <<Fetch(RssDoc(One(r))), Fetch(AtomDoc(One(e))), Fetch(RdfDoc(One(i)))>>
    /\ opml = NoOpml
    /\ importing = NoImport
    /\ alarm = NoAlarm
    /\ items = [f \in Feeds |-> <<>>]
    /\ clock = Now0
    /\ subs = <<>>
    /\ feedMeta = [f \in Feeds |-> NoEntry]
    /\ lastRefreshedAt = NeverRefreshed
    /\ badge = ""
    /\ cycles = [c \in Cycles |-> IdleCycle]
    /\ ops = [o \in Slots |-> IdleOp]
    /\ nextId = 1
    /\ uiSubs = <<>>
    /\ calls = [s \in Slots |-> IdleCall]
    /\ opsLeft = 0
    /\ evicted = [f \in Feeds |-> {}]
    /\ raced = FALSE
    /\ lastWrite = NoWrite

ParseNext == \E k \in 1..3 : FetchFeedReturns(k)

SpecParse == ParseInit /\ [][ParseNext]_vars

\* C22: three single-item documents, one per dialect, that encode the same
\* title, link, content and date normalise to items with identical title,
\* link and content and with dates that denote the same instant.
C22_CrossDialectEquivalence ==
    article # NoArticle
        => \A j, k \in 1..Len(fetches) :
              (fetches[j].returned /\ fetches[k].returned)
                  => /\ fetches[j].feed.kind = "feed"
                     /\ Len(fetches[j].feed.items) = 1
                     /\ LET x == fetches[j].feed.items[1]
                            y == fetches[k].feed.items[1]
                        IN  /\ x.title = y.title
                            /\ x.link = y.link
                            /\ x.content = y.content
                            /\ DateInstant(x.pubDate.v) # NaN
                            /\ DateInstant(x.pubDate.v) = DateInstant(y.pubDate.v)

(***************************************************************************)
(* SpecLive: the refresh cycle under the scheduling the runtime gives.  A  *)
(* chrome.storage call settles and the event loop runs the continuation    *)
(* that waits for it, so every storage step of the cycle and of its        *)
(* callbacks is weakly fair.  Nothing is assumed of the remote servers:    *)
(* FetchSettles is not fair, and a claim that needs the fetches to settle  *)
(* says so.  Storage rejections stay possible and are not fair.            *)
(***************************************************************************)
CycleFairness ==
    \A c \in Cycles :
        /\ WF_vars(CycleGetSubscriptions(c))
        /\ WF_vars(CycleGetFeedValidators(c))
        /\ WF_vars(CycleSaveFeedValidators(c))
        /\ WF_vars(UpdateBadgeGetSubscriptions(c))
        /\ WF_vars(UpdateBadgeGetItems(c))
        /\ WF_vars(CycleSaveLastRefreshed(c))
        /\ \A i \in Feeds :
              /\ WF_vars(TaskSaveItemsGet(c, i))
              /\ WF_vars(TaskSaveItemsSet(c, i))

SpecLive == Init /\ [][Next]_vars /\ CycleFairness

\* Every per-source fetch of every cycle eventually settles.
EveryFetchSettles ==
    \A c \in Cycles, i \in Feeds :
        (cycles[c].task[i].pc = "fetch") ~> (cycles[c].task[i].pc # "fetch")

\* The cycle has ended with its validator write, badge recompute and
\* timestamp record done, or one of its own storage calls was rejected.
TailDoneOrRejected(cy) ==
    /\ cy.pc = "done"
    /\ \/ cy.ownFailure
       \/ cy.validatorWrites = 1 /\ cy.badgeWrites = 1 /\ cy.tsWrites = 1

\* C23 as stated (storage rejections of the cycle's own calls set aside): if
\* every per-source fetch settles, every started cycle ends with its
\* validator write, badge recompute and timestamp record done.
C23_EveryCycleCompletesItsTail ==
    EveryFetchSettles
        => \A c \in Cycles :
              (cycles[c].pc = "read") ~> TailDoneOrRejected(cycles[c])

\* C23: if every per-source fetch settles, every cycle that found at least
\* one subscription ends with its validator write, badge recompute and
\* timestamp record done, unless storage rejects one of the cycle's own
\* calls; and whether or not the other fetches settle, a callback whose feed
\* has arrived gets its saveItems call through (stored or rejected by
\* storage).
C23_NonEmptyCycleCompletesItsTail ==
    /\ EveryFetchSettles
          => \A c \in Cycles :
                (cycles[c].pc = "tasks") ~> TailDoneOrRejected(cycles[c])
    /\ \A c \in Cycles, i \in Feeds :
          (cycles[c].task[i].pc = "get") ~> (cycles[c].task[i].pc = "settled")

\* A cycle has completed its tail although one source failed, and another
\* source's items were stored.
C23_Witness ==
    \E c \in Cycles :
        /\ cycles[c].pc = "done" /\ ~cycles[c].ownFailure
        /\ cycles[c].validatorWrites = 1
        /\ cycles[c].badgeWrites = 1
        /\ cycles[c].tsWrites = 1
        /\ \E i, j \in TaskIds(cycles[c]) :
              /\ cycles[c].task[i].outcome = "failed"
              /\ cycles[c].task[j].wrote

(***************************************************************************)
(* SpecBadge: the operations of SpecOps, started also on registries large  *)
(* enough for more than 999 unread items (MAX_ITEMS_PER_FEED per feed).    *)
(* On such a registry the model runs one deleteFeed: the fan-out of a      *)
(* cycle and the ids addNewFeed gives are modelled for up to MaxFeeds      *)
(* feeds.                                                                  *)
(***************************************************************************)
BadgeFeeds == 6

\* A partition at the cap, every item unread but, if `firstRead`, its first.
FullPartition(f, firstRead) ==
    [k \in 1..MAX_ITEMS_PER_FEED |->
        [TagItem(BigBatch[k], f, Now0 - 1) EXCEPT !.read = (firstRead /\ k = 1)]] \o <<>>

BadgeAddFeedCall(o, url) ==
    /\ Len(subs) < MaxFeeds
    /\ AddFeedCall(o, url)

BadgeStartRefresh(c) ==
    /\ Len(subs) <= MaxFeeds
    /\ OpsStartRefresh(c)

BadgeDeleteFeedCall(o, feedId) ==
    /\ feedId \in DOMAIN items
    /\ Len(subs) <= MaxFeeds \/ OpsStarted = 0
    /\ DeleteFeedCall(o, feedId)

BadgeToggleStar(o, feedId) ==
    /\ Len(subs) <= MaxFeeds
    /\ ToggleStar(o, feedId)

LargeInit ==
    /\ \E n \in (BadgeFeeds - 1)..BadgeFeeds, firstRead \in BOOLEAN :
          /\ subs = Registry(n)
          /\ items = [f \in 1..BadgeFeeds |->
                        IF f <= n THEN FullPartition(f, firstRead /\ f = 1) ELSE <<>>]
          /\ badge = BadgeText(n * MAX_ITEMS_PER_FEED - (IF firstRead THEN 1 ELSE 0))
          /\ nextId = n + 1
    /\ uiSubs = subs
    /\ ops = [o \in Slots |-> IdleOp]
    /\ article = NoArticle
    /\ fetches = <<>>
    /\ opml = NoOpml
    /\ importing = NoImport
    /\ alarm = NoAlarm
    /\ clock = Now0
    /\ feedMeta = [f \in 1..BadgeFeeds |-> NoEntry]
    /\ lastRefreshedAt = NeverRefreshed
    /\ cycles = [c \in Cycles |-> IdleCycle]
    /\ calls = [s \in Slots |-> IdleCall]
    /\ opsLeft = 0
    /\ evicted = [f \in Feeds |-> {}]
    /\ raced = FALSE
    /\ lastWrite = NoWrite

BadgeInit == OpsInit \/ LargeInit

BadgeNext ==
    \/ \E o \in Slots, url \in Urls : BadgeAddFeedCall(o, url)
    \/ \E o \in Slots, r \in Responses : AddFetchSettles(o, r)
    \/ \E o \in Slots : AddGetSubscriptions(o)
    \/ \E o \in Slots : AddSaveSubscriptions(o)
    \/ \E o \in Slots : AddSaveItemsGet(o)
    \/ \E o \in Slots : AddSaveItemsSet(o)
    \/ \E o \in Slots, f \in 1..BadgeFeeds : BadgeDeleteFeedCall(o, f)
    \/ \E o \in Slots : DeleteGetSubscriptions(o)
    \/ \E o \in Slots : DeleteSaveSubscriptions(o)
    \/ \E o \in Slots : DeleteRemoveItems(o)
    \/ \E o \in Slots : OpGetFeedValidators(o)
    \/ \E o \in Slots : OpSaveFeedValidators(o)
    \/ \E o \in Slots : OpBadgeGetSubscriptions(o)
    \/ \E o \in Slots : OpBadgeGetItems(o)
    \/ \E o \in Slots : OpStorageRejects(o)
    \/ \E o \in Slots, f \in Feeds : BadgeToggleStar(o, f)
    \/ \E o \in Slots : StarSaveSubscriptions(o)
    \/ SubscriptionsChanged
    \/ \E c \in Cycles : BadgeStartRefresh(c)
    \/ \E c \in Cycles : CycleGetSubscriptions(c)
    \/ \E c \in Cycles : CycleGetFeedValidators(c)
    \/ \E c \in Cycles, i \in Feeds, r \in Responses : FetchSettles(c, i, r)
    \/ \E c \in Cycles, i \in Feeds : TaskSaveItemsGet(c, i)
    \/ \E c \in Cycles, i \in Feeds : TaskSaveItemsSet(c, i)
    \/ \E c \in Cycles, i \in Feeds : TaskStorageRejects(c, i)
    \/ \E c \in Cycles : CycleSaveFeedValidators(c)
    \/ \E c \in Cycles : UpdateBadgeGetSubscriptions(c)
    \/ \E c \in Cycles : UpdateBadgeGetItems(c)
    \/ \E c \in Cycles : CycleSaveLastRefreshed(c)
    \/ \E c \in Cycles : CycleStorageRejects(c)

SpecBadge == BadgeInit /\ [][BadgeNext]_vars

\* The number of persisted items with read = false, over all partitions.
UnreadEverywhere ==
    Cardinality({p \in UNION {{<<f, k>> : k \in 1..Len(items[f])} : f \in DOMAIN items} :
                    ~items[p[1]][p[2]].read})

\* The cycle is the one operation called so far, and it has run its tail.
CycleRanAlone(cy) ==
    /\ Completed(cy)
    /\ cy.badgeWrites = 1
    /\ \A o \in Slots : ops[o].pc = "idle"

\* C24: once addNewFeed or deleteFeed has succeeded, or a refresh cycle has
\* run its tail, with no other operation running meanwhile or since, the
\* badge text is the unread count over all partitions in decimal when the
\* count is 1 to 999, '999+' when it is above 999, and '' when it is zero.
C24_BadgeShowsUnreadCount ==
    LET n == UnreadEverywhere
        shown == IF n = 0 THEN "" ELSE IF n > 999 THEN "999+" ELSE ToString(n)
    IN  /\ \A o \in Slots :
              (/\ ops[o].kind \in {"add", "delete"}
               /\ ops[o].pc = "done" /\ ops[o].response = "success"
               /\ RanAlone(ops[o]))
                  => badge = shown
        /\ \A c \in Cycles : CycleRanAlone(cycles[c]) => badge = shown

(***************************************************************************)
(* Claims about who writes the feed data (checked under SpecOps).          *)
(***************************************************************************)
\* The operations the background worker runs for a message.
BackgroundKinds == {"add", "delete"}

\* C25: every write of the registry, of an item partition or of the
\* validator map is made by an operation of the background worker
\* (addNewFeed, deleteFeed) or by a refresh cycle, never by the Dashboard.
C25_OnlyBackgroundWrites ==
    [][\A o \in Slots :
          Len(ops'[o].writes) > Len(ops[o].writes)
              => ops'[o].kind \in BackgroundKinds]_vars

(***************************************************************************)
(* SpecFrame: the item store with several feeds.  Every feed has a         *)
(* partition holding the item its feed had when it was added, under the    *)
(* same id in each; callers start saveItems and markItemRead calls on any  *)
(* feed, at most MaxCalls at a time.                                       *)
(***************************************************************************)
\* A faulty key: every batch goes to the first feed's partition.
FeedOfBatch_First(newItems) == StoreFeed

\* const feedId = newItems[0].feedId
FeedOfBatch(newItems) == newItems[1].feedId

\* What callers pass: the seed's id again, a new id, and a full document.
FrameBatches ==
    { <<ParsedItem(1, 2, 3000)>>,
      <<ParsedItem(NewId, 1, 5)>>,
      BigBatch }
FrameItemIds == {1, NewId}

\* saveItems(newItems) with the items tagged for feed f
FrameCallSaveItems(s, f, batch) ==
    /\ FirstIdle(s)
    /\ opsLeft > 0
    /\ opsLeft' = opsLeft - 1
    /\ clock' = clock + 1
    /\ LET newItems == TagItems(batch, f, clock)
       IN  calls' = [calls EXCEPT ![s] =
              [IdleCall EXCEPT !.op = "saveItems", !.pc = "get",
                               !.feedId = FeedOfBatch(newItems),
                               !.newItems = newItems]]
    /\ UNCHANGED <<items, evicted, raced, lastWrite>>
    /\ UNCHANGED orchVars
    /\ UNCHANGED regVars
    /\ UNCHANGED parseVars

\* markItemRead(itemId, feedId, isRead)
FrameCallMarkItemRead(s, f, itemId, isRead) ==
    /\ FirstIdle(s)
    /\ opsLeft > 0
    /\ opsLeft' = opsLeft - 1
    /\ calls' = [calls EXCEPT ![s] =
          [IdleCall EXCEPT !.op = "markItemRead", !.pc = "get", !.feedId = f,
                           !.itemId = itemId, !.isRead = isRead]]
    /\ UNCHANGED <<items, clock, evicted, raced, lastWrite>>
    /\ UNCHANGED orchVars
    /\ UNCHANGED regVars
    /\ UNCHANGED parseVars

FrameInit ==
    /\ subs = Registry(MaxFeeds)
    /\ items = [f \in Feeds |-> <<SeedItem(f)>>]
    /\ badge = BadgeText(MaxFeeds)
    /\ nextId = MaxFeeds + 1
    /\ uiSubs = subs
    /\ ops = [o \in Slots |-> IdleOp]
    /\ article = NoArticle
    /\ fetches = <<>>
    /\ opml = NoOpml
    /\ importing = NoImport
    /\ alarm = NoAlarm
    /\ clock = Now0
    /\ feedMeta = [f \in Feeds |-> NoEntry]
    /\ lastRefreshedAt = NeverRefreshed
    /\ cycles = [c \in Cycles |-> IdleCycle]
    /\ calls = [s \in Slots |-> IdleCall]
    /\ opsLeft = MaxOps
    /\ evicted = [f \in Feeds |-> {}]
    /\ raced = FALSE
    /\ lastWrite = NoWrite

FrameNext ==
    \/ \E s \in Slots, f \in Feeds, b \in FrameBatches : FrameCallSaveItems(s, f, b)
    \/ \E s \in Slots : SaveItemsGet(s)
    \/ \E s \in Slots : SaveItemsSet(s)
    \/ \E s \in Slots : SaveItemsSetFails(s)
    \/ \E s \in Slots, f \in Feeds, id \in FrameItemIds, r \in BOOLEAN :
          FrameCallMarkItemRead(s, f, id, r)
    \/ \E s \in Slots : MarkItemReadGet(s)
    \/ \E s \in Slots : MarkItemReadSet(s)

SpecFrame == FrameInit /\ [][FrameNext]_vars

\* The feed a call was made for: the feed of the batch's items (saveItems),
\* the feedId argument (markItemRead).
TargetFeed(call) ==
    IF call.op = "saveItems" THEN call.newItems[1].feedId ELSE call.feedId

\* C26: a step changes the partition of feed g only if it is the write of a
\* saveItems or markItemRead call made for feed g; the partitions of all
\* other feeds are as before, same ids included.
C26_OtherPartitionsUnchanged ==
    [][\A g \in Feeds :
          items'[g] # items[g]
              => \E s \in Slots :
                    /\ calls[s].pc = "set"
                    /\ calls'[s].pc = "idle"
                    /\ TargetFeed(calls[s]) = g]_vars

\* Feed 1 has been refreshed and its seed item marked read, while the item
\* with the same id in feed 2 is as it was stored.
C26_Witness ==
    /\ lastWrite.op = "markItemRead"
    /\ lastWrite.feedId = 1
    /\ Len(items[1]) > 1
    /\ \E k \in 1..Len(items[1]) : items[1][k].id = 1 /\ items[1][k].read
    /\ items[2] = <<SeedItem(2)>>
    /\ items[3] = <<SeedItem(3)>>

(***************************************************************************)
(* SpecOpml: generateOPML and parseOPML.  Attribute values are sequences   *)
(* of characters.  XMLBuilder.build writes an object as elements: an       *)
(* attribute value with its markup characters replaced by entities, an     *)
(* array as one child element per member.  XMLParser.parse reads elements  *)
(* back: entities replaced by their characters, no child as an absent      *)
(* property, one child as an object and several as an array.               *)
(***************************************************************************)
MaxOutlines == 2

NoAttr == [has |-> FALSE, v |-> <<>>]
Attr(v) == [has |-> TRUE, v |-> v]

\* if (node['@_xmlUrl']): an absent attribute and '' are falsy
TruthyAttr(a) == a.has /\ a.v # <<>>

Untitled == <<"Untitled">>

\* XMLBuilder: & < > " ' in an attribute value are written as entities
EntityOf(c) ==
    CASE c = "&" -> <<"&", "a", "m", "p", ";">>
      [] c = "<" -> <<"&", "l", "t", ";">>
      [] c = ">" -> <<"&", "g", "t", ";">>
      [] c = "\"" -> <<"&", "q", "u", "o", "t", ";">>
      [] c = "'" -> <<"&", "a", "p", "o", "s", ";">>
      [] OTHER -> <<c>>

RECURSIVE XmlEscape(_)
XmlEscape(v) == IF v = <<>> THEN <<>> ELSE EntityOf(Head(v)) \o XmlEscape(Tail(v))

StartsWith(v, prefix) ==
    Len(v) >= Len(prefix) /\ SubSeq(v, 1, Len(prefix)) = prefix

Markup == {"&", "<", ">", "\"", "'"}

\* XMLParser: the entities of an attribute value are replaced by characters
RECURSIVE XmlUnescape(_)
XmlUnescape(v) ==
    IF v = <<>> THEN <<>>
    ELSE IF \E c \in Markup : StartsWith(v, EntityOf(c))
    THEN LET c == CHOOSE d \in Markup : StartsWith(v, EntityOf(d))
         IN  <<c>> \o XmlUnescape(SubSeq(v, Len(EntityOf(c)) + 1, Len(v)))
    ELSE <<Head(v)>> \o XmlUnescape(Tail(v))

EscapeAttr(a) == IF a.has THEN Attr(XmlEscape(a.v)) ELSE NoAttr
UnescapeAttr(a) == IF a.has THEN Attr(XmlUnescape(a.v)) ELSE NoAttr

\* An outline object: its attributes and its `outline` property.
Outline(title, text, xmlUrl, outline) ==
    [title |-> title, text |-> text, xmlUrl |-> xmlUrl, outline |-> outline]

\* builder.build, for an outline object: the element written
RECURSIVE BuildOutline(_)
BuildOutline(node) ==
    [title |-> EscapeAttr(node.title), text |-> EscapeAttr(node.text),
     xmlUrl |-> EscapeAttr(node.xmlUrl),
     kids |-> [k \in 1..Len(node.outline.elems) |->
                  BuildOutline(node.outline.elems[k])] \o <<>>]

\* What the builder writes for a list of objects, and the parser's reading
\* of a list of elements.
BuildList(x) == [k \in 1..Len(x.elems) |-> BuildOutline(x.elems[k])] \o <<>>

RECURSIVE ParseElement(_)
ParseElement(el) ==
    Outline(UnescapeAttr(el.title), UnescapeAttr(el.text), UnescapeAttr(el.xmlUrl),
            IF Len(el.kids) = 0 THEN None
            ELSE IF Len(el.kids) = 1 THEN One(ParseElement(el.kids[1]))
            ELSE Many([k \in 1..Len(el.kids) |-> ParseElement(el.kids[k])] \o <<>>))

\* parser.parse(xmlContent).opml.body.outline
ParseList(els) ==
    IF Len(els) = 0 THEN None
    ELSE IF Len(els) = 1 THEN One(ParseElement(els[1]))
    ELSE Many([k \in 1..Len(els) |-> ParseElement(els[k])] \o <<>>)

\* title: node['@_title'] || node['@_text'] || 'Untitled'
OutlineTitle(node) ==
    IF TruthyAttr(node.title) THEN node.title.v
    ELSE IF TruthyAttr(node.text) THEN node.text.v
    ELSE Untitled

\* A faulty traversal: folders are not entered.
RECURSIVE Traverse_TopLevelOnly(_)
Traverse_TopLevelOnly(list) ==
    IF list = <<>> THEN <<>>
    ELSE (IF TruthyAttr(Head(list).xmlUrl)
          THEN <<[title |-> OutlineTitle(Head(list)), url |-> Head(list).xmlUrl.v]>>
          ELSE <<>>)
         \o Traverse_TopLevelOnly(Tail(list))

\* traverse(nodes), for the list it makes of nodes: each node's own entry,
\* then the entries of its children, then the next node
RECURSIVE Traverse(_)
Traverse(list) ==
    IF list = <<>> THEN <<>>
    ELSE LET node == Head(list)
         IN  (IF TruthyAttr(node.xmlUrl)
              THEN <<[title |-> OutlineTitle(node), url |-> node.xmlUrl.v]>>
              ELSE <<>>)
             \o (IF node.outline.arr \/ Len(node.outline.elems) > 0
                 THEN Traverse(node.outline.elems)
                 ELSE <<>>)
             \o Traverse(Tail(list))

\* parseOPML, given parser.parse's body.outline: a body without an outline
\* makes traverse read a property of undefined, and the error is thrown on
ParseOPML(outline) ==
    IF MapThrows(outline)
    THEN [kind |-> "error", feeds |-> <<>>]
    ELSE [kind |-> "feeds", feeds |-> Traverse(outline.elems)]

\* generateOPML: the body's outline, one folder holding one outline per
\* subscription
GenerateOPML(subscriptions) ==
    One(Outline(Attr(<<"SimpleReader Feeds">>), Attr(<<"SimpleReader Feeds">>), NoAttr,
                Many([k \in 1..Len(subscriptions) |->
                        Outline(Attr(subscriptions[k].title), Attr(subscriptions[k].title),
                                Attr(subscriptions[k].url), None)] \o <<>>)))

\* The titles and urls of the feeds exported and imported.
OpmlTitles == {<<>>, <<"T">>, <<"A", "&", "B">>, <<"&", "l", "t", ";">>}
OpmlUrls == {<<"u", "?", "a", "&", "b">>, <<"v">>}
OpmlFeed == [title : OpmlTitles, url : OpmlUrls]
OpmlLists == UNION {[1..n -> OpmlFeed] : n \in 0..MaxOutlines}

\* A feed outline of a document to import: its title attribute, if it has
\* a title, and its xmlUrl.
FeedOutline(f) ==
    Outline(IF f.title = <<>> THEN NoAttr ELSE Attr(f.title), NoAttr, Attr(f.url), None)

Folder(outline) == Outline(Attr(<<"F">>), Attr(<<"F">>), NoAttr, outline)

\* The feeds as sibling outlines.
Siblings(list) ==
    IF Len(list) = 0 THEN None
    ELSE IF Len(list) = 1 THEN One(FeedOutline(list[1]))
    ELSE Many([k \in 1..Len(list) |-> FeedOutline(list[k])] \o <<>>)

\* Documents to import: the feeds at top level, in one folder, in a folder
\* of a folder, and the first at top level followed by a folder that holds
\* a folder with the rest.  (An OPML body has at least one outline.)
Shapes == {"flat", "folder", "deep", "split"}
Nested(shape, list) ==
    CASE shape = "flat" -> Siblings(list)
      [] shape = "folder" -> One(Folder(Siblings(list)))
      [] shape = "deep" -> One(Folder(One(Folder(Siblings(list)))))
      [] shape = "split" ->
            IF Len(list) = 0 THEN One(Folder(None))
            ELSE Many(<<FeedOutline(list[1]),
                        Folder(One(Folder(Siblings(Tail(list)))))>>)

\* handleExportOPML: generateOPML(subscriptions) builds the document
ExportOPML ==
    /\ opml.pc = "export"
    /\ opml' = [opml EXCEPT !.pc = "parse",
                            !.doc = BuildList(GenerateOPML(opml.list))]
    /\ UNCHANGED <<article, fetches, importing, alarm, items, clock>>
    /\ UNCHANGED orchVars
    /\ UNCHANGED regVars
    /\ UNCHANGED storeVars

\* handleImportOPML: parseOPML(text) returns or throws
ParseOPMLReturns ==
    /\ opml.pc = "parse"
    /\ opml' = [opml EXCEPT !.pc = "done",
                            !.result = ParseOPML(ParseList(opml.doc))]
    /\ UNCHANGED <<article, fetches, importing, alarm, items, clock>>
    /\ UNCHANGED orchVars
    /\ UNCHANGED regVars
    /\ UNCHANGED storeVars

OpmlInit ==
    /\ \E list \in OpmlLists :
          \/ opml = [NoOpml EXCEPT !.pc = "export", !.exported = TRUE, !.list = list]
          \/ \E shape \in Shapes :
                /\ Nested(shape, list) # None
                /\ opml = [NoOpml EXCEPT !.pc = "parse", !.list = list,
                                         !.doc = BuildList(Nested(shape, list))]
    /\ article = NoArticle
    /\ fetches = <<>>
    /\ importing = NoImport
    /\ alarm = NoAlarm
    /\ items = [f \in Feeds |-> <<>>]
    /\ clock = Now0
    /\ subs = <<>>
    /\ feedMeta = [f \in Feeds |-> NoEntry]
    /\ lastRefreshedAt = NeverRefreshed
    /\ badge = ""
    /\ cycles = [c \in Cycles |-> IdleCycle]
    /\ ops = [o \in Slots |-> IdleOp]
    /\ nextId = 1
    /\ uiSubs = <<>>
    /\ calls = [s \in Slots |-> IdleCall]
    /\ opsLeft = 0
    /\ evicted = [f \in Feeds |-> {}]
    /\ raced = FALSE
    /\ lastWrite = NoWrite

OpmlNext == ExportOPML \/ ParseOPMLReturns

SpecOpml == OpmlInit /\ [][OpmlNext]_vars

\* The entries with the default title for a feed that has none.
EntriesWithDefaultTitle(list) ==
    [k \in 1..Len(list) |->
        [title |-> IF list[k].title = <<>> THEN Untitled ELSE list[k].title,
         url |-> list[k].url]] \o <<>>

\* C27 as stated: parseOPML(generateOPML(subscriptions)) returns, in the same
\* order, one entry per subscription with that subscription's title and url.
C27_ExportIsInverse ==
    (opml.exported /\ opml.pc = "done")
        => /\ opml.result.kind = "feeds"
           /\ opml.result.feeds = opml.list

\* C27: parseOPML returns one entry per feed outline in document order,
\* whatever the nesting, and parseOPML(generateOPML(subscriptions)) returns,
\* in the same order, one entry per subscription with its url and its title,
\* a subscription without a title coming back as 'Untitled'.
C27_FlattensAndInvertsUpToDefaultTitle ==
    opml.pc = "done"
        => /\ opml.result.kind = "feeds"
           /\ opml.result.feeds = EntriesWithDefaultTitle(opml.list)

\* An export of two subscriptions, one with markup in its title and url, has
\* been parsed back.
C27_Witness ==
    /\ opml.exported /\ opml.pc = "done"
    /\ Len(opml.list) = 2
    /\ opml.list[1].title = <<"A", "&", "B">>
    /\ opml.list[1].url = <<"u", "?", "a", "&", "b">>
    /\ opml.list[2].title = <<"T">>
    /\ opml.result.feeds = opml.list

(***************************************************************************)
(* SpecImport: the Dashboard's handleImportOPML.  The file's text is       *)
(* parsed, and the loop sends one ADD_FEED message per entry and awaits    *)
(* the promise of addFeedToBackground, which resolves when the background  *)
(* answers or the runtime reports an error.  `sent` and `answers` are the  *)
(* messages sent and the values the promises resolved to.                  *)
(***************************************************************************)
\* What a sendMessage callback gets: the background's { success: true },
\* its { success: false, error }, or chrome.runtime.lastError.
Answers == {"success", "failure", "lastError"}

\* resolve(false) on lastError, resolve(response?.success ?? false) otherwise
Resolved(answer) == answer = "success"

\* A faulty loop: it gives up at the first add that fails.
AfterAnswer_StopsOnFailure(imp, answer) ==
    IF Resolved(answer)
    THEN [imp EXCEPT !.answers = Append(@, Resolved(answer)),
                     !.count = @ + 1, !.pc = "loop"]
    ELSE [imp EXCEPT !.answers = Append(@, Resolved(answer)),
                     !.pc = "done", !.status = "stopped"]

\* await addFeedToBackground(feed.url) resolves; count++; next iteration
AfterAnswer(imp, answer) ==
    [imp EXCEPT !.answers = Append(@, Resolved(answer)),
                !.count = @ + 1, !.pc = "loop"]

\* const feeds = parseOPML(text), inside the try
ImportParse ==
    /\ importing.pc = "parse"
    /\ LET result == ParseOPML(ParseList(importing.doc))
       IN  importing' =
              IF result.kind = "error"
              THEN [importing EXCEPT !.pc = "done", !.status = "Error parsing OPML file."]
              ELSE [importing EXCEPT !.pc = "loop", !.feeds = result.feeds]
    /\ UNCHANGED <<article, fetches, opml, alarm, items, clock>>
    /\ UNCHANGED orchVars
    /\ UNCHANGED regVars
    /\ UNCHANGED storeVars

\* for (const feed of feeds): addFeedToBackground(feed.url) sends ADD_FEED
ImportSend ==
    /\ importing.pc = "loop"
    /\ importing.count < Len(importing.feeds)
    /\ importing' = [importing EXCEPT
                        !.sent = Append(@, importing.feeds[importing.count + 1].url),
                        !.pc = "wait"]
    /\ UNCHANGED <<article, fetches, opml, alarm, items, clock>>
    /\ UNCHANGED orchVars
    /\ UNCHANGED regVars
    /\ UNCHANGED storeVars

\* the sendMessage callback runs
ImportAnswer(answer) ==
    /\ importing.pc = "wait"
    /\ importing' = AfterAnswer(importing, answer)
    /\ UNCHANGED <<article, fetches, opml, alarm, items, clock>>
    /\ UNCHANGED orchVars
    /\ UNCHANGED regVars
    /\ UNCHANGED storeVars

\* the loop is over: setImportStatus(`Done ...`)
ImportDone ==
    /\ importing.pc = "loop"
    /\ importing.count = Len(importing.feeds)
    /\ importing' = [importing EXCEPT !.pc = "done", !.status = "Done"]
    /\ UNCHANGED <<article, fetches, opml, alarm, items, clock>>
    /\ UNCHANGED orchVars
    /\ UNCHANGED regVars
    /\ UNCHANGED storeVars

ImportInit ==
    /\ \E list \in OpmlLists, shape \in Shapes :
          /\ Nested(shape, list) # None
          /\ importing = [NoImport EXCEPT !.pc = "parse",
                                          !.doc = BuildList(Nested(shape, list))]
    /\ article = NoArticle
    /\ fetches = <<>>
    /\ opml = NoOpml
    /\ alarm = NoAlarm
    /\ items = [f \in Feeds |-> <<>>]
    /\ clock = Now0
    /\ subs = <<>>
    /\ feedMeta = [f \in Feeds |-> NoEntry]
    /\ lastRefreshedAt = NeverRefreshed
    /\ badge = ""
    /\ cycles = [c \in Cycles |-> IdleCycle]
    /\ ops = [o \in Slots |-> IdleOp]
    /\ nextId = 1
    /\ uiSubs = <<>>
    /\ calls = [s \in Slots |-> IdleCall]
    /\ opsLeft = 0
    /\ evicted = [f \in Feeds |-> {}]
    /\ raced = FALSE
    /\ lastWrite = NoWrite

ImportNext ==
    \/ ImportParse
    \/ ImportSend
    \/ \E answer \in Answers : ImportAnswer(answer)
    \/ ImportDone

SpecImport == ImportInit /\ [][ImportNext]_vars

\* The urls of the entries parseOPML returned, in order.
UrlsOf(feeds) == [k \in 1..Len(feeds) |-> feeds[k].url] \o <<>>

\* C28: the ADD_FEED messages sent so far are the urls of the first entries
\* of the document, in document order; at most one of them is unanswered;
\* and when the import is over one message has been sent per entry, whether
\* or not adds failed.
C28_ImportIsSequential ==
    /\ Len(importing.sent) <= Len(importing.feeds)
    /\ importing.sent = SubSeq(UrlsOf(importing.feeds), 1, Len(importing.sent))
    /\ Len(importing.sent) - Len(importing.answers) \in {0, 1}
    /\ (importing.pc = "done" /\ importing.status # "Error parsing OPML file.")
          => /\ importing.sent = UrlsOf(importing.feeds)
             /\ Len(importing.answers) = Len(importing.feeds)

\* An import of two feeds is over; the first add failed and the second was
\* sent all the same.
C28_Witness ==
    /\ importing.pc = "done"
    /\ Len(importing.feeds) = 2
    /\ importing.feeds[1].url # importing.feeds[2].url
    /\ importing.answers = <<FALSE, TRUE>>
    /\ importing.sent = UrlsOf(importing.feeds)

(***************************************************************************)
(* SpecRequests: the operations of SpecOps under the scheduling the        *)
(* runtime gives.  Every chrome.storage call of an operation or a cycle    *)
(* settles and its continuation runs, so these steps are weakly fair.      *)
(* Every fetch settles too: the browser ends a request with a response or  *)
(* with a network error.  Storage rejections stay possible and are not     *)
(* fair.                                                                   *)
(***************************************************************************)
FetchFairness ==
    /\ \A o \in Slots : WF_vars(\E r \in Responses : AddFetchSettles(o, r))
    /\ \A c \in Cycles, i \in Feeds : WF_vars(\E r \in Responses : FetchSettles(c, i, r))

OpFairness ==
    \A o \in Slots :
        /\ WF_vars(AddGetSubscriptions(o))
        /\ WF_vars(AddSaveSubscriptions(o))
        /\ WF_vars(AddSaveItemsGet(o))
        /\ WF_vars(AddSaveItemsSet(o))
        /\ WF_vars(DeleteGetSubscriptions(o))
        /\ WF_vars(DeleteSaveSubscriptions(o))
        /\ WF_vars(DeleteRemoveItems(o))
        /\ WF_vars(OpGetFeedValidators(o))
        /\ WF_vars(OpSaveFeedValidators(o))
        /\ WF_vars(OpBadgeGetSubscriptions(o))
        /\ WF_vars(OpBadgeGetItems(o))

\* A REFRESH_FEEDS message arrives while the operations run.
RefreshRequested(c) ==
    /\ OpsStarted < MaxStarted
    /\ StartRefresh(c, "message")

\* The Dashboard sends ADD_FEED, DELETE_FEED and REFRESH_FEEDS messages, and
\* the background worker runs the operations.
RequestsNext ==
    \/ \E o \in Slots, url \in Urls : AddFeedCall(o, url)
    \/ \E o \in Slots, r \in Responses : AddFetchSettles(o, r)
    \/ \E o \in Slots : AddGetSubscriptions(o)
    \/ \E o \in Slots : AddSaveSubscriptions(o)
    \/ \E o \in Slots : AddSaveItemsGet(o)
    \/ \E o \in Slots : AddSaveItemsSet(o)
    \/ \E o \in Slots, f \in Feeds : DeleteFeedCall(o, f)
    \/ \E o \in Slots : DeleteGetSubscriptions(o)
    \/ \E o \in Slots : DeleteSaveSubscriptions(o)
    \/ \E o \in Slots : DeleteRemoveItems(o)
    \/ \E o \in Slots : OpGetFeedValidators(o)
    \/ \E o \in Slots : OpSaveFeedValidators(o)
    \/ \E o \in Slots : OpBadgeGetSubscriptions(o)
    \/ \E o \in Slots : OpBadgeGetItems(o)
    \/ \E o \in Slots : OpStorageRejects(o)
    \/ \E c \in Cycles : RefreshRequested(c)
    \/ \E c \in Cycles : CycleGetSubscriptions(c)
    \/ \E c \in Cycles : CycleGetFeedValidators(c)
    \/ \E c \in Cycles, i \in Feeds, r \in Responses : FetchSettles(c, i, r)
    \/ \E c \in Cycles, i \in Feeds : TaskSaveItemsGet(c, i)
    \/ \E c \in Cycles, i \in Feeds : TaskSaveItemsSet(c, i)
    \/ \E c \in Cycles, i \in Feeds : TaskStorageRejects(c, i)
    \/ \E c \in Cycles : CycleSaveFeedValidators(c)
    \/ \E c \in Cycles : UpdateBadgeGetSubscriptions(c)
    \/ \E c \in Cycles : UpdateBadgeGetItems(c)
    \/ \E c \in Cycles : CycleSaveLastRefreshed(c)
    \/ \E c \in Cycles : CycleStorageRejects(c)

SpecRequests ==
    OpsInit /\ [][RequestsNext]_vars /\ OpFairness /\ CycleFairness /\ FetchFairness

\* The answer to an ADD_FEED or DELETE_FEED request: {success: true} when
\* the operation resolved, {success: false, error} when it threw.
OpAnswered(op) ==
    /\ op.pc = "done"
    /\ op.response \in {"success", "failure"}
    /\ op.response = "failure" <=> op.error # "none"

\* The answer to a REFRESH_FEEDS request: {status: 'success'} when
\* refreshAllFeeds resolved, {status: 'error'} when it rejected.
RefreshAnswered(cy) ==
    /\ cy.pc = "done"
    /\ cy.response \in {"success", "error"}
    /\ cy.response = "error" <=> cy.ownFailure
    /\ cy.response = cy.result

ALARM_NAME == "refresh_feeds"
DefaultInterval == 30
MaxSetups == 3
MaxChanges == 2
MaxLost == 1
Intervals == {15, 60}
Setups == 1..2

\* chrome.alarms.create(name, { periodInMinutes }): an alarm of the same
\* name is replaced
CreateAlarm(alarms, name, period) ==
    {a \in alarms : a.name # name} \cup {[name |-> name, periodInMinutes |-> period]}

\* (await getSettings()).refreshInterval || 30: the stored interval, the
\* default of getSettings when nothing is stored, 30 for a falsy one
ConfiguredInterval(settings) == IF settings = 0 THEN DefaultInterval ELSE settings

\* setupAlarm has returned
SetupReturned(al, s) ==
    [al EXCEPT !.pc[s] = "idle", !.sinceChange = @ + 1]

\* onInstalled / onStartup: await setupAlarm()
SetupAlarmCall(s) ==
    /\ alarm.pc[s] = "idle"
    /\ \A t \in Setups : t < s => alarm.pc[t] # "idle"
    /\ alarm.started < MaxSetups
    /\ alarm' = [alarm EXCEPT !.pc[s] = "get", !.started = @ + 1]
    /\ UNCHANGED <<article, fetches, opml, importing, items, clock>>
    /\ UNCHANGED orchVars
    /\ UNCHANGED regVars
    /\ UNCHANGED storeVars

\* const existing = await chrome.alarms.get(ALARM_NAME); if (existing) return
SetupGetAlarm(s) ==
    /\ alarm.pc[s] = "get"
    /\ alarm' = IF \E a \in alarm.alarms : a.name = ALARM_NAME
                THEN SetupReturned(alarm, s)
                ELSE [alarm EXCEPT !.pc[s] = "settings"]
    /\ UNCHANGED <<article, fetches, opml, importing, items, clock>>
    /\ UNCHANGED orchVars
    /\ UNCHANGED regVars
    /\ UNCHANGED storeVars

\* const settings = await getSettings(); chrome.alarms.create(...)
SetupCreateAlarm(s) ==
    /\ alarm.pc[s] = "settings"
    /\ alarm' = SetupReturned(
                    [alarm EXCEPT !.alarms = CreateAlarm(@, ALARM_NAME,
                                                ConfiguredInterval(alarm.settings))], s)
    /\ UNCHANGED <<article, fetches, opml, importing, items, clock>>
    /\ UNCHANGED orchVars
    /\ UNCHANGED regVars
    /\ UNCHANGED storeVars

\* Dashboard.handleSaveSettings({ refreshInterval }): saveSettings(updated)
SaveSettings(interval) ==
    /\ alarm.changes < MaxChanges
    /\ interval # alarm.settings
    /\ alarm' = [alarm EXCEPT !.settings = interval, !.changes = @ + 1,
                              !.sinceChange = 0]
    /\ UNCHANGED <<article, fetches, opml, importing, items, clock>>
    /\ UNCHANGED orchVars
    /\ UNCHANGED regVars
    /\ UNCHANGED storeVars

\* The browser drops the extension's alarms.
AlarmsLost ==
    /\ alarm.lost < MaxLost
    /\ alarm.alarms # {}
    /\ alarm' = [alarm EXCEPT !.alarms = {}, !.lost = @ + 1, !.sinceChange = 0]
    /\ UNCHANGED <<article, fetches, opml, importing, items, clock>>
    /\ UNCHANGED orchVars
    /\ UNCHANGED regVars
    /\ UNCHANGED storeVars

AlarmInit ==
    /\ alarm = NoAlarm
    /\ article = NoArticle
    /\ fetches = <<>>
    /\ opml = NoOpml
    /\ importing = NoImport
    /\ items = [f \in Feeds |-> <<>>]
    /\ clock = Now0
    /\ subs = <<>>
    /\ feedMeta = [f \in Feeds |-> NoEntry]
    /\ lastRefreshedAt = NeverRefreshed
    /\ badge = ""
    /\ cycles = [c \in Cycles |-> IdleCycle]
    /\ ops = [o \in Slots |-> IdleOp]
    /\ nextId = 1
    /\ uiSubs = <<>>
    /\ calls = [s \in Slots |-> IdleCall]
    /\ opsLeft = 0
    /\ evicted = [f \in Feeds |-> {}]
    /\ raced = FALSE
    /\ lastWrite = NoWrite

AlarmNext ==
    \/ \E s \in Setups : SetupAlarmCall(s)
    \/ \E s \in Setups : SetupGetAlarm(s)
    \/ \E s \in Setups : SetupCreateAlarm(s)
    \/ \E interval \in Intervals : SaveSettings(interval)
    \/ AlarmsLost

SpecAlarm == AlarmInit /\ [][AlarmNext]_vars

\* No setupAlarm call is running, and one has returned since the settings
\* were last changed and since alarms were last dropped.
AfterSetup ==
    /\ \A s \in Setups : alarm.pc[s] = "idle"
    /\ alarm.sinceChange > 0

RssTitle == "R"
AtomTitle == "A"
RdfTitle == "D"

\* <guid> as the parser returns it: absent, text only, or with an attribute.
Guids == {Absent, Str("g1"), Obj("g1")}
Links == {Absent, Str("https://x/1")}
Titles == {Absent, Str("T")}

\* An RSS 2.0 / RSS 1.0 item that carries nothing but identifying fields.
BareItem(guid, link, title) ==
    [guid |-> guid, link |-> link, title |-> title, description |-> Absent,
     contentEncoded |-> Absent, pubDate |-> Absent, dcDate |-> Absent]

Rels == {"", "alternate", "self"}

\* <link rel=... href=...> in position k of an entry
LinkAt(rel, k) ==
    [rel |-> rel, href |-> Str(IF k = 1 THEN "https://x/first" ELSE "https://x/second")]

\* entry.link: one object, or an array of two
LinkLists ==
    {None} \cup {One(LinkAt(r, 1)) : r \in Rels}
           \cup {Many(<<LinkAt(r, 1), LinkAt(q, 2)>>) : r \in Rels, q \in Rels}

BareEntry(id, link, title) ==
    [id |-> id, title |-> title, link |-> link, content |-> Absent,
     summary |-> Absent, updated |-> Absent, published |-> Absent]

\* channel.item / feed.entry / rdf.item: absent, one, or an array of two
Repeated(e) == {None, One(e), Many(<<e, e>>)}

RssRoots ==
    {NoRss} \cup
    {[present |-> TRUE, title |-> Str(RssTitle), item |-> x] :
        x \in UNION {Repeated(BareItem(g, l, t)) : g \in Guids, l \in Links, t \in Titles}}

AtomRoots ==
    {NoAtom} \cup
    {[present |-> TRUE, title |-> Str(AtomTitle), entry |-> x] :
        x \in UNION {Repeated(BareEntry(i, l, Str("T"))) :
                        i \in {Absent, Str("urn:1")}, l \in LinkLists}}

RdfRoots ==
    {NoRdf} \cup
    {[present |-> TRUE, title |-> Str(RdfTitle), item |-> x] :
        x \in UNION {Repeated(BareItem(Absent, l, t)) : l \in Links, t \in Titles}}

NormalizeInit ==
    /\ \E r \in RssRoots, a \in AtomRoots, d \in RdfRoots :
          fetches = <<Fetch([rss |-> r, feed |-> a, rdf |-> d])>>
    /\ article = NoArticle
    /\ opml = NoOpml
    /\ importing = NoImport
    /\ alarm = NoAlarm
    /\ items = [f \in Feeds |-> <<>>]
    /\ clock = Now0
    /\ subs = <<>>
    /\ feedMeta = [f \in Feeds |-> NoEntry]
    /\ lastRefreshedAt = NeverRefreshed
    /\ badge = ""
    /\ cycles = [c \in Cycles |-> IdleCycle]
    /\ ops = [o \in Slots |-> IdleOp]
    /\ nextId = 1
    /\ uiSubs = <<>>
    /\ calls = [s \in Slots |-> IdleCall]
    /\ opsLeft = 0
    /\ evicted = [f \in Feeds |-> {}]
    /\ raced = FALSE
    /\ lastWrite = NoWrite

NormalizeNext == FetchFeedReturns(1)

SpecNormalize == NormalizeInit /\ [][NormalizeNext]_vars

\* The containers of a document, by the title each carries.
RootTitles(result) ==
    <<IF result.rss.present THEN RssTitle ELSE "",
      IF result.feed.present THEN AtomTitle ELSE "",
      IF result.rdf.present THEN RdfTitle ELSE "">>

\* The entries of a container (none for a container without entries).
Entries(root, field) == root[field].elems

\* C31: fetchFeed handles a document as RSS 2.0 when it has the RSS 2.0
\* container, else as Atom when it has the Atom container, else as RSS 1.0
\* when it has the RDF container (the returned feed is that container's),
\* and fails with the unknown-format error, returning no feed, exactly when
\* the document has none of the three.
C31_DispatchPriority ==
    \A k \in 1..Len(fetches) :
        (article = NoArticle /\ fetches[k].returned) =>
            LET t == RootTitles(fetches[k].result)
                f == fetches[k].feed
                first == IF t[1] # "" THEN 1 ELSE IF t[2] # "" THEN 2 ELSE 3
            IN  /\ f.kind = "feed" => (t[first] # "" /\ f.title = t[first])
                /\ (f.kind = "error" /\ f.error = "Unknown feed format")
                       <=> t = <<"", "", "">>
                /\ t = <<"", "", "">> => f.items = <<>>

\* A document with the Atom and the RSS 2.0 container was handled as RSS 2.0,
\* and one with the RDF and the Atom container as Atom.
C31_Witness ==
    \E k \in 1..Len(fetches) :
        /\ article = NoArticle
        /\ fetches[k].returned
        /\ fetches[k].feed.kind = "feed"
        /\ fetches[k].result.feed.present
        /\ \/ fetches[k].result.rss.present /\ fetches[k].feed.title = RssTitle
           \/ fetches[k].result.rdf.present /\ fetches[k].feed.title = AtomTitle

\* The container fetchFeed handled, with the name of its entry field and of
\* the entries' native identifier field ("" where the dialect has none).
Handled(result) ==
    IF result.rss.present THEN <<result.rss, "item", "guid">>
    ELSE IF result.feed.present THEN <<result.feed, "entry", "id">>
    ELSE <<result.rdf, "item", "">>

\* C32: in every dialect a normalised item's id is the entry's native
\* identifier (RSS 2.0 guid, Atom id) when the entry has one, else the
\* entry's (normalised) link, else its title.
C32_IdIsNativeThenLinkThenTitle ==
    \A k \in 1..Len(fetches) :
        (article = NoArticle /\ fetches[k].returned /\ fetches[k].feed.kind = "feed") =>
            LET h == Handled(fetches[k].result)
                entries == Entries(h[1], h[2])
                out == fetches[k].feed.items
            IN  \A n \in 1..Len(out) :
                    LET native == IF h[3] = "" THEN "" ELSE entries[n][h[3]].v
                    IN  GetText(out[n].id) =
                            IF native # "" THEN native
                            ELSE IF GetText(out[n].link) # "" THEN GetText(out[n].link)
                            ELSE GetText(entries[n].title)

\* The rel attributes of an entry's links, in document order.
RelsOf(link) == [k \in 1..Len(link.elems) |-> link.elems[k].rel]

\* The Atom entries that were normalised, with the items they gave.
AtomHandled(k) ==
    /\ article = NoArticle
    /\ fetches[k].returned
    /\ fetches[k].feed.kind = "feed"
    /\ ~fetches[k].result.rss.present
    /\ fetches[k].result.feed.present

\* C33: for an Atom entry with several links the normalised link is the href
\* of the link with rel="alternate" whenever the entry has one, whatever its
\* position, and otherwise the href of the first link without a rel.
C33_AlternateLinkWins ==
    \A k \in 1..Len(fetches) :
        AtomHandled(k) =>
            \A n \in 1..Len(fetches[k].feed.items) :
                LET link == fetches[k].result.feed.entry.elems[n].link
                    rels == RelsOf(link)
                    out == fetches[k].feed.items[n].link
                IN  link.arr =>
                        IF \E p \in 1..Len(rels) : rels[p] = "alternate"
                        THEN \E p \in 1..Len(rels) :
                                rels[p] = "alternate" /\ out = link.elems[p].href
                        ELSE IF \E p \in 1..Len(rels) : rels[p] = ""
                        THEN \E p \in 1..Len(rels) :
                                /\ rels[p] = "" /\ out = link.elems[p].href
                                /\ \A q \in 1..(p - 1) : rels[q] # ""
                        ELSE out = Absent

\* C33 (amended): for an Atom entry with several links the normalised link
\* is the href of the first link, in document order, whose rel is "alternate"
\* or absent, and undefined when the entry has no such link.
C33_FirstAlternateOrUnmarkedLink ==
    \A k \in 1..Len(fetches) :
        AtomHandled(k) =>
            \A n \in 1..Len(fetches[k].feed.items) :
                LET link == fetches[k].result.feed.entry.elems[n].link
                    rels == RelsOf(link)
                    out == fetches[k].feed.items[n].link
                    Eligible(p) == rels[p] \in {"alternate", ""}
                IN  link.arr =>
                        \/ \E p \in 1..Len(rels) :
                              /\ Eligible(p) /\ out = link.elems[p].href
                              /\ \A q \in 1..(p - 1) : ~Eligible(q)
                        \/ /\ \A p \in 1..Len(rels) : ~Eligible(p)
                           /\ out = Absent

\* An entry whose second link is the alternate one, after a rel="self" link,
\* was normalised to the second link's href.
C33_Witness ==
    \E k \in 1..Len(fetches) :
        /\ AtomHandled(k)
        /\ LET link == fetches[k].result.feed.entry.elems[1].link
           IN  /\ link.arr
               /\ RelsOf(link) = <<"self", "alternate">>
               /\ fetches[k].feed.items[1].link = link.elems[2].href

\* C39: a document whose (handled) container has no entries normalises to a
\* feed with an empty item list: fetchFeed returns it and raises no error.
C39_EmptyFeedNormalizes ==
    \A k \in 1..Len(fetches) :
        (article = NoArticle /\ fetches[k].returned) =>
            LET h == Handled(fetches[k].result)
            IN  (h[1].present /\ Entries(h[1], h[2]) = <<>>)
                    => /\ fetches[k].feed.kind = "feed"
                       /\ fetches[k].feed.items = <<>>

(***************************************************************************)
(* Further claims about the item store (checked under SpecStore).          *)
(***************************************************************************)
\* C34: when saveItems ranks items for eviction (calls not overlapping), an
\* item whose pubDate cannot be parsed is ranked by its fetchedAt: it is
\* evicted only if every retained item has an effective timestamp at least
\* its fetchedAt, and retained only if its fetchedAt is at least the
\* effective timestamp of every evicted item.
C34_UnparseableDateRanksByFetchedAt ==
    \A f \in Feeds :
        ~raced =>
            \A i \in 1..Len(items[f]) : \A d \in evicted[f] :
                (items[f][i].pubDate = BadDate \/ d.pubDate = BadDate)
                    => EffectiveTimestamp(items[f][i]) >= EffectiveTimestamp(d)

(***************************************************************************)
(* Further claims about the registry operations (checked under SpecOps).   *)
(***************************************************************************)
\* C35: once every operation has completed (none was cut short by a rejected
\* storage call), the registry contains the subscription of every addNewFeed
\* that answered { success: true }, unless a deleteFeed was called for that
\* very subscription.
C35_SuccessfulAddStaysInRegistry ==
    (Quiescent /\ \A p \in Slots : ops[p].error # "storage")
        => \A o \in Slots :
              (/\ Returned(ops[o], "add", "success")
               /\ \A p \in Slots \ {o} :
                     ~(ops[p].kind = "delete" /\ ops[p].feedId = ops[o].feedId))
                  => \E k \in 1..Len(subs) :
                        subs[k].id = ops[o].feedId /\ subs[k].url = ops[o].url

(***************************************************************************)
(* SpecRead: the reader opens articles while the worker refreshes.  The    *)
(* Dashboard's toggleExpand calls markItemRead(itemId, feedId) on the      *)
(* store and changes its own state; the background worker is not told.     *)
(* The registry holds one or two feeds, each with its first item, unread,  *)
(* and the badge shows their number.                                       *)
(***************************************************************************)
\* Articles opened in one behaviour, and feeds in the registry.
MaxReads == 2
MaxReadFeeds == 2

\* Dashboard.toggleExpand(itemId, feedId): markItemRead(itemId, feedId)
ToggleExpand(s, f, itemId) == FrameCallMarkItemRead(s, f, itemId, TRUE)

\* The alarm fires or the reader asks for a refresh.
ReadStartRefresh(c) == StartRefresh(c, "alarm")

ReadNext ==
    \/ \E s \in Slots, f \in 1..MaxReadFeeds : ToggleExpand(s, f, 1)
    \/ \E s \in Slots : MarkItemReadGet(s)
    \/ \E s \in Slots : MarkItemReadSet(s)
    \/ \E c \in Cycles : ReadStartRefresh(c)
    \/ \E c \in Cycles : CycleGetSubscriptions(c)
    \/ \E c \in Cycles : CycleGetFeedValidators(c)
    \/ \E c \in Cycles, i \in Feeds, r \in Responses : FetchSettles(c, i, r)
    \/ \E c \in Cycles, i \in Feeds : TaskSaveItemsGet(c, i)
    \/ \E c \in Cycles, i \in Feeds : TaskSaveItemsSet(c, i)
    \/ \E c \in Cycles : CycleSaveFeedValidators(c)
    \/ \E c \in Cycles : UpdateBadgeGetSubscriptions(c)
    \/ \E c \in Cycles : UpdateBadgeGetItems(c)
    \/ \E c \in Cycles : CycleSaveLastRefreshed(c)

ReadInit ==
    /\ \E n \in 1..MaxReadFeeds :
          /\ subs = Registry(n)
          /\ items = [f \in Feeds |-> IF f <= n THEN <<SeedItem(f)>> ELSE <<>>]
          /\ badge = BadgeText(n)
          /\ nextId = n + 1
    /\ uiSubs = subs
    /\ ops = [o \in Slots |-> IdleOp]
    /\ article = NoArticle
    /\ fetches = <<>>
    /\ opml = NoOpml
    /\ importing = NoImport
    /\ alarm = NoAlarm
    /\ clock = Now0
    /\ feedMeta = [f \in Feeds |-> NoEntry]
    /\ lastRefreshedAt = NeverRefreshed
    /\ cycles = [c \in Cycles |-> IdleCycle]
    /\ calls = [s \in Slots |-> IdleCall]
    /\ opsLeft = MaxReads
    /\ evicted = [f \in Feeds |-> {}]
    /\ raced = FALSE
    /\ lastWrite = NoWrite

SpecRead == ReadInit /\ [][ReadNext]_vars

\* No store call, operation or cycle is in flight.
NothingInFlight ==
    /\ Quiescent
    /\ \A s \in Slots : calls[s].pc = "idle"

\* C38: in every state in which nothing is in flight, the badge shows the
\* number of stored items with read = false, also after markItemRead.
C38_BadgeFollowsReadFlags ==
    NothingInFlight => badge = BadgeText(UnreadEverywhere)

(***************************************************************************)
(* SpecOverlap: two refreshAllFeeds calls at once.  The alarm listener and *)
(* the REFRESH_FEEDS handler both call refreshAllFeeds with no guard, so a *)
(* manual refresh may start while a scheduled one is running; the remote   *)
(* may answer the two fetches of a source differently.  The registry holds *)
(* one feed.                                                               *)
(***************************************************************************)
MaxOverlap == 2
OverlapCycles == 1..MaxOverlap

\* chrome.alarms.onAlarm: refreshAllFeeds()
AlarmRefresh(c) == StartRefresh(c, "alarm")

\* onMessage REFRESH_FEEDS: refreshAllFeeds()
ManualRefresh(c) == StartRefresh(c, "message")

OverlapInit ==
    /\ subs = Registry(1)
    /\ items = [f \in Feeds |-> IF f = 1 THEN <<SeedItem(f)>> ELSE <<>>]
    /\ badge = BadgeText(1)
    /\ nextId = 2
    /\ uiSubs = subs
    /\ ops = [o \in Slots |-> IdleOp]
    /\ article = NoArticle
    /\ fetches = <<>>
    /\ opml = NoOpml
    /\ importing = NoImport
    /\ alarm = NoAlarm
    /\ clock = Now0
    /\ feedMeta = [f \in Feeds |-> NoEntry]
    /\ lastRefreshedAt = NeverRefreshed
    /\ cycles = [c \in OverlapCycles |-> IdleCycle]
    /\ calls = [s \in Slots |-> IdleCall]
    /\ opsLeft = 0
    /\ evicted = [f \in Feeds |-> {}]
    /\ raced = FALSE
    /\ lastWrite = NoWrite

OverlapNext ==
    \/ \E c \in OverlapCycles : AlarmRefresh(c)
    \/ \E c \in OverlapCycles : ManualRefresh(c)
    \/ \E c \in OverlapCycles : CycleGetSubscriptions(c)
    \/ \E c \in OverlapCycles : CycleGetFeedValidators(c)
    \/ \E c \in OverlapCycles, i \in Feeds, r \in Responses : FetchSettles(c, i, r)
    \/ \E c \in OverlapCycles, i \in Feeds : TaskSaveItemsGet(c, i)
    \/ \E c \in OverlapCycles, i \in Feeds : TaskSaveItemsSet(c, i)
    \/ \E c \in OverlapCycles, i \in Feeds : TaskStorageRejects(c, i)
    \/ \E c \in OverlapCycles : CycleSaveFeedValidators(c)
    \/ \E c \in OverlapCycles : UpdateBadgeGetSubscriptions(c)
    \/ \E c \in OverlapCycles : UpdateBadgeGetItems(c)
    \/ \E c \in OverlapCycles : CycleSaveLastRefreshed(c)
    \/ \E c \in OverlapCycles : CycleStorageRejects(c)

SpecOverlap == OverlapInit /\ [][OverlapNext]_vars

\* The callbacks, of any cycle, that stored the response of feed f.
StoredFor(f) ==
    {ci \in OverlapCycles \X Feeds :
        /\ ci[2] \in TaskIds(cycles[ci[1]])
        /\ cycles[ci[1]].subscriptions[ci[2]].id = f
        /\ cycles[ci[1]].task[ci[2]].outcome = "stored"}

\* C40: when two refreshAllFeeds calls have overlapped and both have
\* completed, every partition (below the cap) holds every item that either
\* call put into it, and a persisted validator entry of a source is the one
\* returned with a response whose items were stored.
C40_OverlappingCyclesLoseNothing ==
    (\A c \in OverlapCycles : Completed(cycles[c]))
        => \A f \in Feeds :
              /\ Len(items[f]) < MAX_ITEMS_PER_FEED
                    => \A ci \in StoredFor(f) :
                          cycles[ci[1]].task[ci[2]].delivered \subseteq IdsOf(items[f])
              /\ feedMeta[f].present
                    => \E ci \in StoredFor(f) :
                          LET v == cycles[ci[1]].task[ci[2]].returned
                          IN  feedMeta[f] = Entry(v.etag, v.lastModified, v.siteLink)

(***************************************************************************)
(* SpecValidators: the worker with the conditional fetcher.  The           *)
(* background worker calls fetchFeed(url, validators) and handles a null   *)
(* result and returned validators; that fetcher is not among the sources   *)
(* (utils/fetcher.js is the earlier fetchFeed(url)), so it is modelled     *)
(* from the specification of the fetch interface.  The registry holds one  *)
(* feed, added earlier, with or without a stored validator; one refresh    *)
(* cycle and one addNewFeed or deleteFeed run, interleaved.                *)
(***************************************************************************)
\* fetch(url, validator): NO_CHANGE when the remote reports "not modified",
\* otherwise the normalised feed with the validators present in the response.
FetchFeedConditional(url, validator, response) ==
    IF response.networkError THEN Thrown
    ELSE IF response.status = 304
    THEN [kind |-> "null", items |-> <<>>, etag |-> Undefined,
          lastModified |-> Undefined, siteLink |-> Undefined]
    ELSE IF ~ResponseOk(response) THEN Thrown
    ELSE IF response.root \notin {"rss", "feed", "rdf:RDF"} THEN Thrown
    ELSE [kind |-> "feed", items |-> NormalizeEntries(response.entries),
          etag |-> response.etag, lastModified |-> Undefined, siteLink |-> Undefined]

\* The remote answers callback i's request and the conditional fetch settles.
ConditionalFetchSettles(c, i, response) ==
    /\ cycles[c].pc = "tasks"
    /\ i \in TaskIds(cycles[c])
    /\ cycles[c].task[i].pc = "fetch"
    /\ LET sub == cycles[c].subscriptions[i]
           feedData == FetchFeedConditional(sub.url, cycles[c].task[i].validator, response)
           cy == [cycles[c] EXCEPT !.task[i].status = response.status,
                                   !.task[i].respEtag = response.etag,
                                   !.task[i].fetched = feedData.kind]
       IN  cycles' = [cycles EXCEPT ![c] = AfterFetch(cy, i, feedData, clock)]
    /\ UNCHANGED <<items, clock, subs, feedMeta, lastRefreshedAt, badge>>
    /\ UNCHANGED storeVars
    /\ UNCHANGED regVars
    /\ UNCHANGED parseVars

\* addNewFeed: const feedData = await fetchFeed(url), the conditional fetcher
AddConditionalFetchSettles(o, response) ==
    /\ ops[o].kind = "add"
    /\ ops[o].pc = "fetch"
    /\ response.status # 304
    /\ ops' = [ops EXCEPT ![o] =
          AddAfterFetch(@, FetchFeedConditional(ops[o].url, NoEntry, response), response)]
    /\ UNCHANGED <<items, clock, subs, feedMeta, lastRefreshedAt, badge, cycles, nextId, uiSubs>>
    /\ UNCHANGED storeVars
    /\ UNCHANGED parseVars

\* The validator stored for the feed added earlier.
OldEntry == Entry("v0", Undefined, Undefined)

ValidatorsInit ==
    /\ subs = Registry(1)
    /\ items = [f \in Feeds |-> IF f = 1 THEN <<SeedItem(f)>> ELSE <<>>]
    /\ badge = BadgeText(1)
    /\ nextId = 2
    /\ \E e \in {NoEntry, OldEntry} :
          feedMeta = [f \in Feeds |-> IF f = 1 THEN e ELSE NoEntry]
    /\ uiSubs = subs
    /\ ops = [o \in Slots |-> IdleOp]
    /\ article = NoArticle
    /\ fetches = <<>>
    /\ opml = NoOpml
    /\ importing = NoImport
    /\ alarm = NoAlarm
    /\ clock = Now0
    /\ lastRefreshedAt = NeverRefreshed
    /\ cycles = [c \in Cycles |-> IdleCycle]
    /\ calls = [s \in Slots |-> IdleCall]
    /\ opsLeft = 0
    /\ evicted = [f \in Feeds |-> {}]
    /\ raced = FALSE
    /\ lastWrite = NoWrite

ValidatorsNext ==
    \/ \E o \in Slots, url \in Urls : AddFeedCall(o, url)
    \/ \E o \in Slots, r \in Responses : AddConditionalFetchSettles(o, r)
    \/ \E o \in Slots : AddGetSubscriptions(o)
    \/ \E o \in Slots : AddSaveSubscriptions(o)
    \/ \E o \in Slots : AddSaveItemsGet(o)
    \/ \E o \in Slots : AddSaveItemsSet(o)
    \/ \E o \in Slots, f \in Feeds : DeleteFeedCall(o, f)
    \/ \E o \in Slots : DeleteGetSubscriptions(o)
    \/ \E o \in Slots : DeleteSaveSubscriptions(o)
    \/ \E o \in Slots : DeleteRemoveItems(o)
    \/ \E o \in Slots : OpGetFeedValidators(o)
    \/ \E o \in Slots : OpSaveFeedValidators(o)
    \/ \E o \in Slots : OpBadgeGetSubscriptions(o)
    \/ \E o \in Slots : OpBadgeGetItems(o)
    \/ \E c \in Cycles : OpsStartRefresh(c)
    \/ \E c \in Cycles : CycleGetSubscriptions(c)
    \/ \E c \in Cycles : CycleGetFeedValidators(c)
    \/ \E c \in Cycles, i \in Feeds, r \in Responses : ConditionalFetchSettles(c, i, r)
    \/ \E c \in Cycles, i \in Feeds : TaskSaveItemsGet(c, i)
    \/ \E c \in Cycles, i \in Feeds : TaskSaveItemsSet(c, i)
    \/ \E c \in Cycles, i \in Feeds : TaskStorageRejects(c, i)
    \/ \E c \in Cycles : CycleSaveFeedValidators(c)
    \/ \E c \in Cycles : UpdateBadgeGetSubscriptions(c)
    \/ \E c \in Cycles : UpdateBadgeGetItems(c)
    \/ \E c \in Cycles : CycleSaveLastRefreshed(c)

SpecValidators == ValidatorsInit /\ [][ValidatorsNext]_vars

====
